---- MODULE Spec2Model ----
(***************************************************************************)
(* A model of the agentic tool-calling loop of ghidra-mcp:                 *)
(*   src/core/chat.py   ChatOllama (conversation log, run loop, recovery   *)
(*                      pass, transport shim)                              *)
(*   src/core/tools.py  ToolManager (catalogue build, tool dispatch)       *)
(*                                                                         *)
(* Python values are abstracted as follows.                                *)
(*   - A text (assistant content, a fenced block, a JSON candidate) is a   *)
(*     sequence of lexemes: the fence ```, the word json, whitespace,      *)
(*     prose, and the JSON lexemes [ ] , null and whole objects.           *)
(*   - A dict is a record; a missing key is a missing field.               *)
(*   - A tool name is a string; the JSON array used as a name (an          *)
(*     unhashable Python list) is the reserved value ListName.             *)
(***************************************************************************)
EXTENDS Integers, Sequences, FiniteSets, TLC

VARIABLES
    messages,       \* self.messages: the conversation log
    ollamaTools,    \* self._ollama_tools: cached descriptor list, or None
    toolClients,    \* self._tool_clients: cached ownership map, or None
    advertised,     \* what each provider's list_tools() answers (environment)
    pc,             \* per run() call: where its coroutine stands
    payload,        \* per run(): the payload of the last model request
    message,        \* per run(): the unwrapped reply message of the round
    thinking,       \* per run(): local `thinking`
    content,        \* per run(): local `content` (after the recovery pass)
    tool_calls,     \* per run(): local `tool_calls` (after the recovery pass)
    idx,            \* per run(): position of execute_tool_calls in tool_calls
    inflight,       \* per run(): the provider call being awaited, or NoCall
    tool_messages,  \* per run(): execute_tool_calls' accumulated messages
    final,          \* per run(): the value run() returned
    raised,         \* per run(): the exception that left run(), or NoExc
    invoked,        \* per run(): provider calls made by the current dispatch
    emitted,        \* per run(): for each of tool_messages, the entry it is for
    nrequests,      \* per run(): model requests sent by the current run()
    nruns,          \* number of run() calls started on the agent
    nreplies,       \* number of model replies received by the agent
    listed,         \* the providers whose list_tools() was called, in order
    response,       \* per run(): the HTTP response of the last request
    returned,       \* per run(): the value _chat returned for it
    direct          \* the tool calls CliApp.run made without the agent

vars == <<messages, ollamaTools, toolClients, advertised, pc, payload, message,
          thinking, content, tool_calls, idx, inflight, tool_messages, final,
          raised, invoked, emitted, nrequests, nruns, nreplies, listed,
          response, returned, direct>>

----------------------------------------------------------------------------
(* Bounds of the model.                                                    *)

\* run() calls started on one agent instance
MaxRuns == 2
\* model replies received by one agent instance, over all its runs
MaxReplies == 3
\* length of a tool_calls list handed to execute_tool_calls directly
MaxCalls == 3
\* length, in lexemes, of an assistant content handed to the recovery pass
MaxContentLen == 6

----------------------------------------------------------------------------
(* Python values.                                                          *)

None == "None"
NoExc == "NoExc"
NoCall == [busy |-> FALSE]

\* The runs: the CLI awaits each run() before it starts the next, so one
\* identifier is reused by the sequential specifications.
Runs == {"A", "B"}
SeqRuns == {"A"}

\* Tool names. "ux" is advertised by no provider.
ListName == "['t1']"
ToolNames == {"t1", "t2"}
StrNames == {"t1", "t2", "ux", ""}

\* bool(name): the empty string is falsy, every other name here is truthy.
Truthy(name) == name # ""
\* hash(name) succeeds for a string and fails for a list.
Hashable(name) == name # ListName

\* d.get(key, default) / _get_attr_or_key(d, key, default) on a dict
Get(d, key, default) == IF key \in DOMAIN d THEN d[key] ELSE default
Has(d, key) == key \in DOMAIN d

Last(s) == s[Len(s)]
IsPrefix(s, t) == Len(s) <= Len(t) /\ SubSeq(t, 1, Len(s)) = s

----------------------------------------------------------------------------
(* Texts and JSON values.                                                  *)

\* the three backquotes of a fenced code block
Fence == "<fence>"
JsonWord == "json"
Ws == " "
Prose == "txt"
LBracket == "["
RBracket == "]"
Comma == ","
\* the JSON literal null
NullLit == "null"

\* JSON objects written out in full, one lexeme each.
ObjLexemes == {"{t1,x}", "{t2,x}", "{ux,x}", "{t1}", "{x}", "{t1,null}",
               "{[],x}", "{}"}

JNull == [type |-> "null"]
JDict(fields) == [type |-> "dict", fields |-> fields]
JList(items) == [type |-> "list", items |-> items]
EmptyDict == JDict(<<>>)
ArgsX == JDict([x |-> 1])

\* The value json.loads gives for each object lexeme.
ObjOf(lex) ==
    CASE lex = "{t1,x}"    -> JDict([name |-> "t1", arguments |-> ArgsX])
      [] lex = "{t2,x}"    -> JDict([name |-> "t2", arguments |-> ArgsX])
      [] lex = "{ux,x}"    -> JDict([name |-> "ux", arguments |-> ArgsX])
      [] lex = "{t1}"      -> JDict([name |-> "t1"])
      [] lex = "{x}"       -> ArgsX
      [] lex = "{t1,null}" -> JDict([name |-> "t1", arguments |-> JNull])
      [] lex = "{[],x}"    -> JDict([name |-> ListName, arguments |-> ArgsX])
      [] lex = "{}"        -> EmptyDict

\* bool(v) is False: None, {}, [] and the empty string
Falsy(v) ==
    \/ v.type = "null"
    \/ v.type = "dict" /\ DOMAIN v.fields = {}
    \/ v.type = "list" /\ v.items = <<>>
    \/ v.type = "str" /\ v.text = <<>>

RECURSIVE SkipWs(_, _)
SkipWs(toks, i) ==
    IF i <= Len(toks) /\ toks[i] = Ws THEN SkipWs(toks, i + 1) ELSE i

RECURSIVE SkipWsBack(_, _)
SkipWsBack(toks, j) ==
    IF j >= 1 /\ toks[j] = Ws THEN SkipWsBack(toks, j - 1) ELSE j

\* str.strip()
Strip(toks) ==
    LET i == SkipWs(toks, 1)
        j == SkipWsBack(toks, Len(toks))
    IN IF i > j THEN <<>> ELSE SubSeq(toks, i, j)

ParseFail == [ok |-> FALSE, val |-> JNull, next |-> 0]

\* The JSON grammar over lexemes: a value is an object, null or a list
\* of values; whitespace may stand between lexemes.
RECURSIVE ParseValue(_, _), ParseItems(_, _, _)
ParseValue(toks, i0) ==
    LET i == SkipWs(toks, i0) IN
    IF i > Len(toks) THEN ParseFail
    ELSE IF toks[i] \in ObjLexemes
         THEN [ok |-> TRUE, val |-> ObjOf(toks[i]), next |-> i + 1]
    ELSE IF toks[i] = NullLit
         THEN [ok |-> TRUE, val |-> JNull, next |-> i + 1]
    ELSE IF toks[i] = LBracket
         THEN LET j == SkipWs(toks, i + 1) IN
              IF j <= Len(toks) /\ toks[j] = RBracket
              THEN [ok |-> TRUE, val |-> JList(<<>>), next |-> j + 1]
              ELSE ParseItems(toks, i + 1, <<>>)
    ELSE ParseFail
ParseItems(toks, i, acc) ==
    LET r == ParseValue(toks, i) IN
    IF ~r.ok THEN ParseFail
    ELSE LET j == SkipWs(toks, r.next) IN
         IF j > Len(toks) THEN ParseFail
         ELSE IF toks[j] = Comma
              THEN ParseItems(toks, j + 1, Append(acc, r.val))
         ELSE IF toks[j] = RBracket
              THEN [ok |-> TRUE, val |-> JList(Append(acc, r.val)),
                    next |-> j + 1]
         ELSE ParseFail

\* json.loads(text): one value, then nothing but whitespace.
JsonLoads(toks) ==
    LET r == ParseValue(toks, 1) IN
    IF r.ok /\ SkipWs(toks, r.next) > Len(toks)
    THEN [ok |-> TRUE, val |-> r.val]
    ELSE [ok |-> FALSE, val |-> JNull]

----------------------------------------------------------------------------
(* The recovery pass of ChatOllama.run.                                    *)

RECURSIVE NextFence(_, _)
NextFence(toks, i) ==
    IF i > Len(toks) THEN 0
    ELSE IF toks[i] = Fence THEN i ELSE NextFence(toks, i + 1)

\* re.finditer(r"```(?:json)?\s*([\s\S]*?)```", content): the matches, left
\* to right and not overlapping; each runs from a fence to the next one.
RECURSIVE FenceMatchesFrom(_, _)
FenceMatchesFrom(toks, i) ==
    LET o == NextFence(toks, i) IN
    IF o = 0 THEN <<>>
    ELSE LET c == NextFence(toks, o + 1) IN
         IF c = 0 THEN <<>>
         ELSE <<[open |-> o, close |-> c]>> \o FenceMatchesFrom(toks, c + 1)

FenceMatches(toks) == FenceMatchesFrom(toks, 1)

\* match.group(1): what follows the fence, an optional "json" and any
\* whitespace, up to the closing fence.
Group1(toks, m) ==
    LET a == IF toks[m.open + 1] = JsonWord THEN m.open + 2 ELSE m.open + 1
        b == SkipWs(toks, a)
    IN SubSeq(toks, b, m.close - 1)

\* A variant of JsonCandidate that takes the first fenced block.
JsonCandidateFirstBlock(text) ==
    LET fence_matches == FenceMatches(text) IN
    IF fence_matches # <<>>
    THEN Strip(Group1(text, Head(fence_matches)))
    ELSE Strip(text)

\* The JSON candidate: the last fenced block, else the whole content.
JsonCandidate(text) ==
    LET fence_matches == FenceMatches(text) IN
    IF fence_matches # <<>>
    THEN Strip(Group1(text, Last(fence_matches)))
    ELSE Strip(text)

\* _calls_from_obj(obj): the synthesized calls, or the TypeError of
\* `name in self._tool_clients` for an unhashable name.
RECURSIVE CallsFromObj(_, _), CallsFromItems(_, _, _)
CallsFromObj(obj, tool_clients) ==
    IF obj.type = "dict" /\ Has(obj.fields, "name")
                         /\ Has(obj.fields, "arguments")
    THEN LET name == obj.fields.name
             args == obj.fields.arguments
         IN IF ~Hashable(name) THEN [raised |-> TRUE, calls |-> <<>>]
            ELSE IF name \in DOMAIN tool_clients
                 THEN [raised |-> FALSE,
                       calls |-> <<[function |->
                                     [name |-> name,
                                      arguments |-> IF Falsy(args)
                                                    THEN EmptyDict
                                                    ELSE args]]>>]
            ELSE [raised |-> FALSE, calls |-> <<>>]
    ELSE IF obj.type = "list"
         THEN CallsFromItems(obj.items, tool_clients, <<>>)
    ELSE [raised |-> FALSE, calls |-> <<>>]
CallsFromItems(items, tool_clients, acc) ==
    IF items = <<>> THEN [raised |-> FALSE, calls |-> acc]
    ELSE LET r == CallsFromObj(Head(items), tool_clients) IN
         IF r.raised THEN r
         ELSE CallsFromItems(Tail(items), tool_clients, acc \o r.calls)

\* A variant of Recovery that leaves the content as it came even when
\* requests were synthesized from it.
RecoveryKeepsContent(text, tool_clients) ==
    LET parsed == JsonLoads(JsonCandidate(text))
    IN IF ~parsed.ok THEN [tool_calls |-> <<>>, content |-> text]
       ELSE LET synthesized == CallsFromObj(parsed.val, tool_clients) IN
            IF synthesized.raised
            THEN [tool_calls |-> <<>>, content |-> text]
            ELSE [tool_calls |-> synthesized.calls, content |-> text]

\* A variant of Recovery that clears the content as soon as the candidate
\* parses, whether or not a request was synthesized from it.
RecoveryClearsOnParse(text, tool_clients) ==
    LET parsed == JsonLoads(JsonCandidate(text))
    IN IF ~parsed.ok THEN [tool_calls |-> <<>>, content |-> text]
       ELSE LET synthesized == CallsFromObj(parsed.val, tool_clients) IN
            IF synthesized.raised
            THEN [tool_calls |-> <<>>, content |-> text]
            ELSE [tool_calls |-> synthesized.calls, content |-> <<>>]

\* Lines 141-181 for a reply whose structured tool_calls is empty: the
\* tool_calls and content the round goes on with.
Recovery(text, tool_clients) ==
    LET parsed == JsonLoads(JsonCandidate(text))
        unchanged == [tool_calls |-> <<>>, content |-> text]
    IN IF ~parsed.ok THEN unchanged
       ELSE LET synthesized == CallsFromObj(parsed.val, tool_clients) IN
            IF synthesized.raised \/ synthesized.calls = <<>>
            THEN unchanged
            ELSE [tool_calls |-> synthesized.calls, content |-> <<>>]

----------------------------------------------------------------------------
(* ToolManager.build_ollama_tools: the catalogue.                          *)

\* self.clients, in the iteration order of the dict
ClientOrder == <<"p1", "p2">>
Clients == {"p1", "p2"}

\* What list_tools() of a provider answers: a list of tool names, or the
\* call fails.
Listing(names) == [ok |-> TRUE, tools |-> names]
ListingFails == [ok |-> FALSE, tools |-> <<>>]

OpenSchema == [type |-> "object", additionalProperties |-> TRUE]

\* The descriptor appended for tool `name` of provider `client`; the
\* description stands for the metadata that provider gives the tool.
Descriptor(client, name) ==
    [type |-> "function",
     function |-> [name |-> name, description |-> client,
                   parameters |-> OpenSchema]]

\* A variant of Put that leaves a key it finds in the dict as it is.
PutKeepsFirst(d, key, value) ==
    [k \in DOMAIN d \cup {key} |-> IF k \in DOMAIN d THEN d[k] ELSE value]

\* d[key] = value on a dict
Put(d, key, value) ==
    [k \in DOMAIN d \cup {key} |-> IF k = key THEN value ELSE d[k]]

\* A variant of FoldTools with the ownership assignment after the inner
\* loop: only the last tool of a listing gets its owner.
RECURSIVE FoldToolsOwnsLast(_, _, _)
FoldToolsOwnsLast(client, names, acc) ==
    IF names = <<>> THEN acc
    ELSE FoldToolsOwnsLast(client, Tail(names),
                   [tools |-> Append(acc.tools,
                                     Descriptor(client, Head(names))),
                    tool_clients |-> IF Tail(names) = <<>>
                                     THEN Put(acc.tool_clients, Head(names),
                                              client)
                                     ELSE acc.tool_clients])

\* The inner loop: for tool in result.tools
RECURSIVE FoldTools(_, _, _)
FoldTools(client, names, acc) ==
    IF names = <<>> THEN acc
    ELSE FoldTools(client, Tail(names),
                   [tools |-> Append(acc.tools,
                                     Descriptor(client, Head(names))),
                    tool_clients |-> Put(acc.tool_clients, Head(names),
                                         client)])

\* A variant of BuildFrom that passes over a provider whose list_tools()
\* fails.
RECURSIVE BuildFromSkipsFailing(_, _, _)
BuildFromSkipsFailing(adv, clients, acc) ==
    IF clients = <<>>
    THEN [raised |-> FALSE, tools |-> acc.tools,
          tool_clients |-> acc.tool_clients]
    ELSE IF ~adv[Head(clients)].ok
         THEN BuildFromSkipsFailing(adv, Tail(clients), acc)
    ELSE BuildFromSkipsFailing(adv, Tail(clients),
                   FoldTools(Head(clients), adv[Head(clients)].tools, acc))

\* The outer loop: for client in clients.values(); a failing list_tools()
\* leaves the function by its exception.
RECURSIVE BuildFrom(_, _, _)
BuildFrom(adv, clients, acc) ==
    IF clients = <<>>
    THEN [raised |-> FALSE, tools |-> acc.tools,
          tool_clients |-> acc.tool_clients]
    ELSE IF ~adv[Head(clients)].ok
         THEN [raised |-> TRUE, tools |-> <<>>, tool_clients |-> <<>>]
    ELSE BuildFrom(adv, Tail(clients),
                   FoldTools(Head(clients), adv[Head(clients)].tools, acc))

BuildOllamaTools(adv) ==
    BuildFrom(adv, ClientOrder, [tools |-> <<>>, tool_clients |-> <<>>])

\* The providers whose list_tools() one build calls: each in turn, up to
\* and including the first whose call fails.
RECURSIVE Queried(_, _)
Queried(adv, clients) ==
    IF clients = <<>> THEN <<>>
    ELSE IF ~adv[Head(clients)].ok THEN <<Head(clients)>>
    ELSE <<Head(clients)>> \o Queried(adv, Tail(clients))

----------------------------------------------------------------------------
(* ToolManager.execute_tool_calls: one entry of tool_calls.                *)

\* arguments that are a JSON-encoded string
JStr(text) == [type |-> "str", text |-> text]

\* Lines 121-128: the arguments handed on for the function object fn.
NormArgs(fn) ==
    LET given == Get(fn, "arguments", EmptyDict)
        arguments == IF Falsy(given) THEN EmptyDict ELSE given
    IN IF arguments.type = "dict" THEN arguments
       ELSE IF arguments.type = "str" /\ JsonLoads(arguments.text).ok
            THEN JsonLoads(arguments.text).val
       ELSE JDict([raw |-> arguments])

\* The tool-role messages.
ToolMsg(tool_name, text) ==
    [role |-> "tool", tool_name |-> tool_name, content |-> text]
NoClientText(tool_name) == [kind |-> "no_client", tool |-> tool_name]
ExecErrorText(tool_name, exc) ==
    [kind |-> "exec_error", tool |-> tool_name, exc |-> exc]

\* A variant of Prepare that answers an entry without a name with the
\* no-client message instead of passing over it.
PrepareAnswersUnnamed(call, tool_clients) ==
    IF ~Has(call, "function") THEN [act |-> "skip"]
    ELSE LET fn == call.function IN
         IF ~Has(fn, "name") \/ ~Truthy(fn.name)
         THEN [act |-> "message", msg |-> ToolMsg("", NoClientText(""))]
         ELSE IF ~Hashable(fn.name) THEN [act |-> "raise"]
         ELSE IF fn.name \notin DOMAIN tool_clients
              THEN [act |-> "message",
                    msg |-> ToolMsg(fn.name, NoClientText(fn.name))]
         ELSE [act |-> "call", client |-> tool_clients[fn.name],
               name |-> fn.name, arguments |-> NormArgs(fn)]

\* Lines 113-140: what the loop body does with one entry up to the
\* provider call: continue without a message, leave by the TypeError of
\* tool_clients.get(<list>), append the no-client message, or call.
Prepare(call, tool_clients) ==
    IF ~Has(call, "function") THEN [act |-> "skip"]
    ELSE LET fn == call.function IN
         IF ~Has(fn, "name") \/ ~Truthy(fn.name) THEN [act |-> "skip"]
         ELSE IF ~Hashable(fn.name) THEN [act |-> "raise"]
         ELSE IF fn.name \notin DOMAIN tool_clients
              THEN [act |-> "message",
                    msg |-> ToolMsg(fn.name, NoClientText(fn.name))]
         ELSE [act |-> "call", client |-> tool_clients[fn.name],
               name |-> fn.name, arguments |-> NormArgs(fn)]

\* What session.call_tool can do: raise, or return a result (or None).
TextBlock(text) == [type |-> "text", text |-> text]
ImageBlock == [type |-> "image"]
CallRaises(exc) == [kind |-> "raise", exc |-> exc]
CallResult(isError, blocks) ==
    [kind |-> "result", isError |-> isError, content |-> blocks]
CallNone == [kind |-> "none"]
\* the call has not returned yet
Pending == [kind |-> "pending"]

\* A variant of TextParts that takes in the blocks that are no text too.
RECURSIVE TextPartsKeepsAll(_)
TextPartsKeepsAll(blocks) ==
    IF blocks = <<>> THEN <<>>
    ELSE IF Head(blocks).type = "text"
         THEN <<Head(blocks).text>> \o TextPartsKeepsAll(Tail(blocks))
    ELSE <<Head(blocks).type>> \o TextPartsKeepsAll(Tail(blocks))

RECURSIVE TextParts(_)
TextParts(blocks) ==
    IF blocks = <<>> THEN <<>>
    ELSE IF Head(blocks).type = "text"
         THEN <<Head(blocks).text>> \o TextParts(Tail(blocks))
    ELSE TextParts(Tail(blocks))

\* "\n".join(parts)
RECURSIVE JoinLines(_)
JoinLines(parts) ==
    IF Len(parts) <= 1 THEN parts
    ELSE <<Head(parts), "\n">> \o JoinLines(Tail(parts))

\* json.dumps(safe_result, default=str)
DumpText(isError, blocks) ==
    [kind |-> "dump", isError |-> isError, content |-> blocks]

\* Lines 142-179: the message appended once the provider call is over.
ResultMessage(tool_name, outcome) ==
    IF outcome.kind = "raise"
    THEN ToolMsg(tool_name, ExecErrorText(tool_name, outcome.exc))
    ELSE LET blocks == IF outcome.kind = "result" THEN outcome.content
                       ELSE <<>>
             isError == IF outcome.kind = "result" THEN outcome.isError
                        ELSE FALSE
             text_parts == TextParts(blocks)
         IN IF text_parts = <<>>
            THEN ToolMsg(tool_name, DumpText(isError, blocks))
            ELSE ToolMsg(tool_name,
                         [kind |-> "text", text |-> JoinLines(text_parts)])

----------------------------------------------------------------------------
(* ChatOllama: construction and one round of run().                        *)

\* Optional[...] fields of the agent
Unset == [isNone |-> TRUE]
Some(v) == [isNone |-> FALSE, value |-> v]

SystemMsg == [role |-> "system", content |-> "system prompt"]
\* A variant of UserMsg that records the query as a system turn.
UserMsgAsSystem(query) == [role |-> "system", content |-> query]
UserMsg(query) == [role |-> "user", content |-> query]

\* Line 131: the reply's message object.
Unwrap(raw) ==
    IF raw.type = "dict" THEN Get(raw.fields, "message", EmptyDict)
    ELSE EmptyDict

\* A variant of ReadMessage that goes on with the trimmed content.
ReadMessageStripsContent(msg, tool_clients) ==
    LET thinking0 == Get(msg.fields, "thinking", "")
        content0 == Get(msg.fields, "content", <<>>)
        tool_calls0 == Get(msg.fields, "tool_calls", <<>>)
        rec == IF tool_calls0 = <<>> THEN Recovery(content0, tool_clients)
               ELSE [tool_calls |-> tool_calls0, content |-> content0]
    IN [thinking |-> thinking0,
        content |-> IF rec.tool_calls = <<>> THEN Strip(content0)
                    ELSE rec.content,
        tool_calls |-> rec.tool_calls]

\* A variant of ReadMessage that runs the recovery pass on every reply.
ReadMessageAlwaysRecovers(msg, tool_clients) ==
    LET thinking0 == Get(msg.fields, "thinking", "")
        content0 == Get(msg.fields, "content", <<>>)
        tool_calls0 == Get(msg.fields, "tool_calls", <<>>)
        rec == Recovery(content0, tool_clients)
    IN [thinking |-> thinking0, content |-> rec.content,
        tool_calls |-> IF rec.tool_calls = <<>> THEN tool_calls0
                       ELSE rec.tool_calls]

\* Lines 133-181 for a message that is a dict: the round's thinking,
\* content and tool_calls, the recovery pass included.
ReadMessage(msg, tool_clients) ==
    LET thinking0 == Get(msg.fields, "thinking", "")
        content0 == Get(msg.fields, "content", <<>>)
        tool_calls0 == Get(msg.fields, "tool_calls", <<>>)
        rec == IF tool_calls0 = <<>> THEN Recovery(content0, tool_clients)
               ELSE [tool_calls |-> tool_calls0, content |-> content0]
    IN [thinking |-> thinking0, content |-> rec.content,
        tool_calls |-> rec.tool_calls]

\* A variant of AssistantMsg that records the tool_calls key in every turn.
AssistantMsgAlwaysToolCalls(text, thought, calls) ==
    IF thought = ""
    THEN [role |-> "assistant", content |-> text, tool_calls |-> calls]
    ELSE [role |-> "assistant", content |-> text, thinking |-> thought,
          tool_calls |-> calls]

\* Lines 184-191: the assistant turn recorded for the round.
AssistantMsg(text, thought, calls) ==
    CASE thought = "" /\ calls = <<>> ->
             [role |-> "assistant", content |-> text]
      [] thought # "" /\ calls = <<>> ->
             [role |-> "assistant", content |-> text, thinking |-> thought]
      [] thought = "" /\ calls # <<>> ->
             [role |-> "assistant", content |-> text, tool_calls |-> calls]
      [] OTHER ->
             [role |-> "assistant", content |-> text, thinking |-> thought,
              tool_calls |-> calls]

\* Line 194: `if not tool_calls`
NoToolCalls(calls) == calls = <<>>

\* A variant of Payload that sends the last turn of the log alone.
PayloadLastTurn(log, tools) ==
    [model |-> "ollama_model", messages |-> <<Last(log)>>, tools |-> tools,
     stream |-> FALSE]

\* Lines 123-128
Payload(log, tools) ==
    [model |-> "ollama_model", messages |-> log, tools |-> tools,
     stream |-> FALSE]
NoPayload == [model |-> "none"]

\* A reply as the backend words it.
ReplyFields(thought, text, calls) ==
    CASE thought = "" /\ calls = <<>> -> [content |-> text]
      [] thought # "" /\ calls = <<>> ->
             [content |-> text, thinking |-> thought]
      [] thought = "" /\ calls # <<>> ->
             [content |-> text, tool_calls |-> calls]
      [] OTHER ->
             [content |-> text, thinking |-> thought, tool_calls |-> calls]
Reply(thought, text, calls) ==
    JDict([message |-> JDict(ReplyFields(thought, text, calls))])

----------------------------------------------------------------------------
(* The state machine.                                                      *)

\* No HTTP response yet / the response requests.post returned.
NoResponse == [arrived |-> FALSE]
Response(status, body) == [arrived |-> TRUE, status |-> status, body |-> body]

\* _chat has not returned / has returned `value`.
NotReturned == [done |-> FALSE]
Returned(value) == [done |-> TRUE, value |-> value]

Idle(r) == pc[r] \in {"idle", "done", "failed"}

\* The locals of a fresh run() frame.
FreshFrame(r) ==
    /\ payload' = [payload EXCEPT ![r] = NoPayload]
    /\ message' = [message EXCEPT ![r] = EmptyDict]
    /\ thinking' = [thinking EXCEPT ![r] = ""]
    /\ content' = [content EXCEPT ![r] = <<>>]
    /\ tool_calls' = [tool_calls EXCEPT ![r] = <<>>]
    /\ idx' = [idx EXCEPT ![r] = 0]
    /\ inflight' = [inflight EXCEPT ![r] = NoCall]
    /\ tool_messages' = [tool_messages EXCEPT ![r] = <<>>]
    /\ final' = [final EXCEPT ![r] = <<>>]
    /\ raised' = [raised EXCEPT ![r] = NoExc]
    /\ invoked' = [invoked EXCEPT ![r] = <<>>]
    /\ emitted' = [emitted EXCEPT ![r] = <<>>]
    /\ nrequests' = [nrequests EXCEPT ![r] = 0]
    /\ response' = [response EXCEPT ![r] = NoResponse]
    /\ returned' = [returned EXCEPT ![r] = NotReturned]

InitAgent(adv) ==
    /\ messages = <<SystemMsg>>
    /\ ollamaTools = Unset
    /\ toolClients = Unset
    /\ advertised = adv
    /\ pc = [r \in Runs |-> "idle"]
    /\ payload = [r \in Runs |-> NoPayload]
    /\ message = [r \in Runs |-> EmptyDict]
    /\ thinking = [r \in Runs |-> ""]
    /\ content = [r \in Runs |-> <<>>]
    /\ tool_calls = [r \in Runs |-> <<>>]
    /\ idx = [r \in Runs |-> 0]
    /\ inflight = [r \in Runs |-> NoCall]
    /\ tool_messages = [r \in Runs |-> <<>>]
    /\ final = [r \in Runs |-> <<>>]
    /\ raised = [r \in Runs |-> NoExc]
    /\ invoked = [r \in Runs |-> <<>>]
    /\ emitted = [r \in Runs |-> <<>>]
    /\ nrequests = [r \in Runs |-> 0]
    /\ nruns = 0
    /\ nreplies = 0
    /\ listed = <<>>
    /\ response = [r \in Runs |-> NoResponse]
    /\ returned = [r \in Runs |-> NotReturned]
    /\ direct = <<>>

\* A variant of StartRun that begins every run on a fresh log.
StartRunFreshLog(r, query) ==
    /\ Idle(r)
    /\ nruns < MaxRuns
    /\ messages' = <<SystemMsg, UserMsg(query)>>
    /\ pc' = [pc EXCEPT ![r] = "ensure"]
    /\ nruns' = nruns + 1
    /\ FreshFrame(r)
    /\ UNCHANGED <<listed,
                   ollamaTools, toolClients, advertised, nreplies, direct>>

\* A variant of StartRun that waits until no other run() of the agent is
\* under way.
StartRunExclusive(r, query) ==
    /\ Idle(r)
    /\ \A o \in Runs \ {r} : Idle(o)
    /\ nruns < MaxRuns
    /\ messages' = Append(messages, UserMsg(query))
    /\ pc' = [pc EXCEPT ![r] = "ensure"]
    /\ nruns' = nruns + 1
    /\ FreshFrame(r)
    /\ UNCHANGED <<listed,
                   ollamaTools, toolClients, advertised, nreplies, direct>>

\* run(query), line 114: _process_query appends the user turn.
StartRun(r, query) ==
    /\ Idle(r)
    /\ nruns < MaxRuns
    /\ messages' = Append(messages, UserMsg(query))
    /\ pc' = [pc EXCEPT ![r] = "ensure"]
    /\ nruns' = nruns + 1
    /\ FreshFrame(r)
    /\ UNCHANGED <<listed,
                   ollamaTools, toolClients, advertised, nreplies, direct>>

\* A variant of EnsureToolsLoaded that builds the catalogue in every run.
EnsureToolsRebuilds(r) ==
    /\ pc[r] = "ensure"
    /\ LET built == BuildOllamaTools(advertised) IN
       /\ listed' = listed \o Queried(advertised, ClientOrder)
       /\ IF built.raised
          THEN /\ pc' = [pc EXCEPT ![r] = "failed"]
               /\ raised' = [raised EXCEPT ![r] = "ListToolsError"]
               /\ UNCHANGED <<ollamaTools, toolClients>>
          ELSE /\ ollamaTools' = Some(built.tools)
               /\ toolClients' = Some(built.tool_clients)
               /\ pc' = [pc EXCEPT ![r] = "awaiting"]
               /\ UNCHANGED raised
    /\ UNCHANGED <<response, returned,
                   messages, advertised, payload, message, thinking, content,
                   tool_calls, idx, inflight, tool_messages, final, invoked,
                   emitted,
                   nrequests, nruns, nreplies, direct>>


\* Line 115: _ensure_tools_loaded builds the catalogue unless both cached
\* fields are set; a failing build leaves run() by its exception.
EnsureToolsLoaded(r) ==
    /\ pc[r] = "ensure"
    /\ IF ollamaTools.isNone \/ toolClients.isNone
       THEN LET built == BuildOllamaTools(advertised) IN
            /\ listed' = listed \o Queried(advertised, ClientOrder)
            /\ IF built.raised
               THEN /\ pc' = [pc EXCEPT ![r] = "failed"]
                    /\ raised' = [raised EXCEPT ![r] = "ListToolsError"]
                    /\ UNCHANGED <<ollamaTools, toolClients>>
               ELSE /\ ollamaTools' = Some(built.tools)
                    /\ toolClients' = Some(built.tool_clients)
                    /\ pc' = [pc EXCEPT ![r] = "awaiting"]
                    /\ UNCHANGED raised
       ELSE /\ pc' = [pc EXCEPT ![r] = "awaiting"]
            /\ UNCHANGED <<ollamaTools, toolClients, raised, listed>>
    /\ UNCHANGED <<response, returned,
                   messages, advertised, payload, message, thinking, content,
                   tool_calls, idx, inflight, tool_messages, final, invoked,
                   emitted,
                   nrequests, nruns, nreplies, direct>>

\* A variant of SendRequest that gives up after two rounds of a run.
SendRequestCapped(r) ==
    /\ pc[r] = "awaiting"
    /\ nreplies < MaxReplies
    /\ nrequests[r] < 2
    /\ payload' = [payload EXCEPT ![r] = Payload(messages, ollamaTools.value)]
    /\ nrequests' = [nrequests EXCEPT ![r] = @ + 1]
    /\ pc' = [pc EXCEPT ![r] = "inflight"]
    /\ response' = [response EXCEPT ![r] = NoResponse]
    /\ returned' = [returned EXCEPT ![r] = NotReturned]
    /\ UNCHANGED <<listed,
                   messages, ollamaTools, toolClients, advertised, message,
                   thinking, content, tool_calls, idx, inflight,
                   tool_messages, final, raised, invoked, emitted, nruns,
                   nreplies, direct>>

\* A variant of SendRequest whose payload holds the system turn and the
\* turns of this run only.
SendRequestOwnTurns(r) ==
    /\ pc[r] = "awaiting"
    /\ nreplies < MaxReplies
    /\ LET u == CHOOSE i \in 1..Len(messages) :
                    /\ messages[i].role = "user"
                    /\ \A k \in (i + 1)..Len(messages) :
                           messages[k].role # "user"
       IN payload' = [payload EXCEPT
                        ![r] = Payload(<<messages[1]>>
                                         \o SubSeq(messages, u, Len(messages)),
                                       ollamaTools.value)]
    /\ nrequests' = [nrequests EXCEPT ![r] = @ + 1]
    /\ pc' = [pc EXCEPT ![r] = "inflight"]
    /\ response' = [response EXCEPT ![r] = NoResponse]
    /\ returned' = [returned EXCEPT ![r] = NotReturned]
    /\ UNCHANGED <<listed,
                   messages, ollamaTools, toolClients, advertised, message,
                   thinking, content, tool_calls, idx, inflight,
                   tool_messages, final, raised, invoked, emitted, nruns,
                   nreplies, direct>>

\* Lines 123-130: compose the payload and send it (AwaitingModel).
SendRequest(r) ==
    /\ pc[r] = "awaiting"
    /\ nreplies < MaxReplies
    /\ payload' = [payload EXCEPT ![r] = Payload(messages, ollamaTools.value)]
    /\ nrequests' = [nrequests EXCEPT ![r] = @ + 1]
    /\ pc' = [pc EXCEPT ![r] = "inflight"]
    /\ response' = [response EXCEPT ![r] = NoResponse]
    /\ returned' = [returned EXCEPT ![r] = NotReturned]
    /\ UNCHANGED <<listed,
                   messages, ollamaTools, toolClients, advertised, message,
                   thinking, content, tool_calls, idx, inflight,
                   tool_messages, final, raised, invoked, emitted, nruns,
                   nreplies, direct>>

\* A variant of RoundAborts that records an empty assistant turn for the
\* round before the exception leaves.
RoundAbortsWritesTurn(r, exc) ==
    /\ pc' = [pc EXCEPT ![r] = "failed"]
    /\ raised' = [raised EXCEPT ![r] = exc]
    /\ nreplies' = nreplies + 1
    /\ messages' = Append(messages, AssistantMsg(<<>>, "", <<>>))
    /\ UNCHANGED <<ollamaTools, toolClients, advertised, payload,
                   message, thinking, content, tool_calls, idx, inflight,
                   tool_messages, final, invoked, emitted, nrequests, nruns,
                   listed, returned, direct>>

\* A variant of RoundAborts that takes the turns of the failing run, its
\* user turn included, off the log before the exception leaves.
RoundAbortsRollsBack(r, exc) ==
    /\ pc' = [pc EXCEPT ![r] = "failed"]
    /\ raised' = [raised EXCEPT ![r] = exc]
    /\ nreplies' = nreplies + 1
    /\ LET u == CHOOSE i \in 1..Len(messages) :
                    /\ messages[i].role = "user"
                    /\ \A k \in (i + 1)..Len(messages) :
                           messages[k].role # "user"
       IN messages' = SubSeq(messages, 1, u - 1)
    /\ UNCHANGED <<ollamaTools, toolClients, advertised, payload,
                   message, thinking, content, tool_calls, idx, inflight,
                   tool_messages, final, invoked, emitted, nrequests, nruns,
                   listed, returned, direct>>

\* Line 130 raises `exc`: the exception leaves run().
RoundAborts(r, exc) ==
    /\ pc' = [pc EXCEPT ![r] = "failed"]
    /\ raised' = [raised EXCEPT ![r] = exc]
    /\ nreplies' = nreplies + 1
    /\ UNCHANGED <<messages, ollamaTools, toolClients, advertised, payload,
                   message, thinking, content, tool_calls, idx, inflight,
                   tool_messages, final, invoked, emitted, nrequests, nruns,
                   listed, returned, direct>>

\* The transport failed (HTTP status, empty or unparseable body).
TransportFails(r) ==
    /\ pc[r] = "inflight"
    /\ RoundAborts(r, "TransportError")
    /\ UNCHANGED response

\* Lines 130-200: _chat returned `raw`; the round reads it, records the
\* assistant turn and either returns or enters execute_tool_calls.
RoundReads(r, raw) ==
    /\ nreplies' = nreplies + 1
    /\ returned' = [returned EXCEPT ![r] = Returned(raw)]
    /\ message' = [message EXCEPT ![r] = Unwrap(raw)]
    /\ IF Unwrap(raw).type # "dict"
       THEN \* message.get(...) on None or a non-dict: AttributeError
            /\ pc' = [pc EXCEPT ![r] = "failed"]
            /\ raised' = [raised EXCEPT ![r] = "AttributeError"]
            /\ UNCHANGED <<messages, thinking, content, tool_calls, idx,
                           tool_messages, final, invoked, emitted>>
       ELSE LET rd == ReadMessage(Unwrap(raw), toolClients.value) IN
            /\ thinking' = [thinking EXCEPT ![r] = rd.thinking]
            /\ content' = [content EXCEPT ![r] = rd.content]
            /\ tool_calls' = [tool_calls EXCEPT ![r] = rd.tool_calls]
            /\ messages' = Append(messages,
                                  AssistantMsg(rd.content, rd.thinking,
                                               rd.tool_calls))
            /\ IF NoToolCalls(rd.tool_calls)
               THEN /\ final' = [final EXCEPT ![r] = rd.content]
                    /\ pc' = [pc EXCEPT ![r] = "done"]
                    /\ UNCHANGED <<idx, tool_messages, invoked, emitted>>
               ELSE /\ pc' = [pc EXCEPT ![r] = "dispatching"]
                    /\ idx' = [idx EXCEPT ![r] = 1]
                    /\ tool_messages' = [tool_messages EXCEPT ![r] = <<>>]
                    /\ invoked' = [invoked EXCEPT ![r] = <<>>]
                    /\ emitted' = [emitted EXCEPT ![r] = <<>>]
                    /\ UNCHANGED final
            /\ UNCHANGED raised
    /\ UNCHANGED <<ollamaTools, toolClients, advertised, payload, inflight,
                   nrequests, nruns, listed, direct>>

\* The reply `raw` arrives.
ReceiveReply(r, raw) ==
    /\ pc[r] = "inflight"
    /\ RoundReads(r, raw)
    /\ UNCHANGED response

\* A variant of DispatchStep that goes on with the loop while a provider
\* call is still awaited.
DispatchStepNoWait(r) ==
    /\ pc[r] = "dispatching"
    /\ idx[r] <= Len(tool_calls[r])
    /\ LET p == Prepare(tool_calls[r][idx[r]], toolClients.value) IN
       CASE p.act = "skip" ->
                /\ idx' = [idx EXCEPT ![r] = @ + 1]
                /\ UNCHANGED <<pc, raised, tool_messages, inflight, invoked,
                               emitted>>
         [] p.act = "raise" ->
                /\ pc' = [pc EXCEPT ![r] = "failed"]
                /\ raised' = [raised EXCEPT ![r] = "TypeError"]
                /\ UNCHANGED <<idx, tool_messages, inflight, invoked, emitted>>
         [] p.act = "message" ->
                /\ tool_messages' = [tool_messages EXCEPT
                                       ![r] = Append(@, p.msg)]
                /\ emitted' = [emitted EXCEPT ![r] = Append(@, idx[r])]
                /\ idx' = [idx EXCEPT ![r] = @ + 1]
                /\ UNCHANGED <<pc, raised, inflight, invoked>>
         [] p.act = "call" ->
                /\ inflight' = [inflight EXCEPT
                                  ![r] = [busy |-> TRUE, client |-> p.client,
                                          name |-> p.name,
                                          arguments |-> p.arguments]]
                /\ invoked' = [invoked EXCEPT
                                 ![r] = Append(@, [index |-> idx[r],
                                                   client |-> p.client,
                                                   name |-> p.name,
                                                   arguments |-> p.arguments,
                                                   outcome |-> Pending])]
                /\ UNCHANGED <<pc, raised, idx, tool_messages, emitted>>
    /\ UNCHANGED <<listed, response, returned,
                   messages, ollamaTools, toolClients, advertised, payload,
                   message, thinking, content, tool_calls, final, nrequests,
                   nruns, nreplies, direct>>

\* execute_tool_calls, one pass of `for call in tool_calls` up to the
\* provider call (lines 112-146).
DispatchStep(r) ==
    /\ pc[r] = "dispatching"
    /\ ~inflight[r].busy
    /\ idx[r] <= Len(tool_calls[r])
    /\ LET p == Prepare(tool_calls[r][idx[r]], toolClients.value) IN
       CASE p.act = "skip" ->
                /\ idx' = [idx EXCEPT ![r] = @ + 1]
                /\ UNCHANGED <<pc, raised, tool_messages, inflight, invoked,
                               emitted>>
         [] p.act = "raise" ->
                /\ pc' = [pc EXCEPT ![r] = "failed"]
                /\ raised' = [raised EXCEPT ![r] = "TypeError"]
                /\ UNCHANGED <<idx, tool_messages, inflight, invoked, emitted>>
         [] p.act = "message" ->
                /\ tool_messages' = [tool_messages EXCEPT
                                       ![r] = Append(@, p.msg)]
                /\ emitted' = [emitted EXCEPT ![r] = Append(@, idx[r])]
                /\ idx' = [idx EXCEPT ![r] = @ + 1]
                /\ UNCHANGED <<pc, raised, inflight, invoked>>
         [] p.act = "call" ->
                /\ inflight' = [inflight EXCEPT
                                  ![r] = [busy |-> TRUE, client |-> p.client,
                                          name |-> p.name,
                                          arguments |-> p.arguments]]
                /\ invoked' = [invoked EXCEPT
                                 ![r] = Append(@, [index |-> idx[r],
                                                   client |-> p.client,
                                                   name |-> p.name,
                                                   arguments |-> p.arguments,
                                                   outcome |-> Pending])]
                /\ UNCHANGED <<pc, raised, idx, tool_messages, emitted>>
    /\ UNCHANGED <<listed, response, returned,
                   messages, ollamaTools, toolClients, advertised, payload,
                   message, thinking, content, tool_calls, final, nrequests,
                   nruns, nreplies, direct>>

\* A variant of CallReturns that puts a provider's result in front of the
\* messages collected so far.
CallReturnsPrepends(r, outcome) ==
    /\ pc[r] = "dispatching"
    /\ inflight[r].busy
    /\ tool_messages' = [tool_messages EXCEPT
                           ![r] = <<ResultMessage(inflight[r].name,
                                                  outcome)>> \o @]
    /\ emitted' = [emitted EXCEPT ![r] = <<idx[r]>> \o @]
    /\ invoked' = [invoked EXCEPT
                     ![r][Len(invoked[r])].outcome = outcome]
    /\ inflight' = [inflight EXCEPT ![r] = NoCall]
    /\ idx' = [idx EXCEPT ![r] = @ + 1]
    /\ UNCHANGED <<listed, response, returned,
                   messages, ollamaTools, toolClients, advertised, pc,
                   payload, message, thinking, content, tool_calls, final,
                   raised, nrequests, nruns, nreplies, direct>>

\* The awaited session.call_tool is over (lines 144-179).
CallReturns(r, outcome) ==
    /\ pc[r] = "dispatching"
    /\ inflight[r].busy
    /\ tool_messages' = [tool_messages EXCEPT
                           ![r] = Append(@, ResultMessage(inflight[r].name,
                                                          outcome))]
    /\ emitted' = [emitted EXCEPT ![r] = Append(@, idx[r])]
    /\ invoked' = [invoked EXCEPT
                     ![r][Len(invoked[r])].outcome = outcome]
    /\ inflight' = [inflight EXCEPT ![r] = NoCall]
    /\ idx' = [idx EXCEPT ![r] = @ + 1]
    /\ UNCHANGED <<listed, response, returned,
                   messages, ollamaTools, toolClients, advertised, pc,
                   payload, message, thinking, content, tool_calls, final,
                   raised, nrequests, nruns, nreplies, direct>>

\* A variant of FinishDispatch that hands back to run() when the last
\* entry of tool_calls is still to be processed.
FinishDispatchEarly(r) ==
    /\ pc[r] = "dispatching"
    /\ ~inflight[r].busy
    /\ idx[r] >= Len(tool_calls[r])
    /\ messages' = messages \o tool_messages[r]
    /\ pc' = [pc EXCEPT ![r] = "awaiting"]
    /\ UNCHANGED <<listed, response, returned,
                   ollamaTools, toolClients, advertised, payload, message,
                   thinking, content, tool_calls, idx, inflight,
                   tool_messages, final, raised, invoked, emitted, nrequests,
                   nruns,
                   nreplies, direct>>

\* execute_tool_calls returns (line 181) and run() extends the log with
\* its messages (line 203), back to the top of the loop.
FinishDispatch(r) ==
    /\ pc[r] = "dispatching"
    /\ ~inflight[r].busy
    /\ idx[r] > Len(tool_calls[r])
    /\ messages' = messages \o tool_messages[r]
    /\ pc' = [pc EXCEPT ![r] = "awaiting"]
    /\ UNCHANGED <<listed, response, returned,
                   ollamaTools, toolClients, advertised, payload, message,
                   thinking, content, tool_calls, idx, inflight,
                   tool_messages, final, raised, invoked, emitted, nrequests,
                   nruns,
                   nreplies, direct>>

----------------------------------------------------------------------------
(* The inputs of the sequential specification.                             *)

CallT1 == [function |-> [name |-> "t1", arguments |-> ArgsX]]
CallT2 == [function |-> [name |-> "t2", arguments |-> ArgsX]]
CallUx == [function |-> [name |-> "ux", arguments |-> ArgsX]]
CallEmptyName == [function |-> [name |-> "", arguments |-> ArgsX]]
CallNoName == [function |-> [arguments |-> ArgsX]]
CallNoFunction == [type |-> "function"]
CallListName == [function |-> [name |-> ListName, arguments |-> ArgsX]]

AdvBoth == [p1 |-> Listing(<<"t1">>), p2 |-> Listing(<<"t2">>)]
AdvOnlyT1 == [p1 |-> Listing(<<"t1">>), p2 |-> Listing(<<>>)]
AdvFails == [p1 |-> Listing(<<"t1">>), p2 |-> ListingFails]
LoopAdvertised == {AdvBoth, AdvOnlyT1, AdvFails}

Queries == {"q"}

\* prose, then a fenced call of t1
FencedCall == <<Prose, Fence, JsonWord, Ws, "{t1,x}", Ws, Fence>>
\* a fenced call of t1, then a fenced block that is no JSON
CallThenProseBlock == <<Fence, "{t1,x}", Fence, Fence, Prose, Fence>>
LoopContents ==
    {<<>>, <<Prose>>, FencedCall, CallThenProseBlock, <<"{ux,x}">>,
     <<LBracket, "{t2,x}", Comma, "{t1,x}", RBracket>>}

LoopCallLists ==
    {<<CallT1>>, <<CallUx>>, <<CallUx, CallT1>>, <<CallEmptyName, CallT2>>,
     <<CallNoFunction>>, <<CallUx, CallListName>>}

LoopRaws ==
    {Reply("", c, <<>>) : c \in LoopContents}
    \cup {Reply("", <<>>, calls) : calls \in LoopCallLists}
    \cup {Reply("th", <<Prose>>, <<CallT1>>), Reply("th", <<Prose>>, <<>>),
          Reply("", FencedCall, <<CallT2>>)}
    \cup {JDict([message |-> JNull]), JList(<<>>), EmptyDict}

LoopOutcomes ==
    {CallRaises("boom"), CallResult(FALSE, <<TextBlock("out")>>),
     CallResult(TRUE, <<ImageBlock>>)}

----------------------------------------------------------------------------
(* Spec: one agent, its run() calls one after the other, as CliApp.run     *)
(* makes them.                                                             *)

Init == \E adv \in LoopAdvertised : InitAgent(adv)

SeqStartRun(r) ==
    /\ \A o \in Runs \ {r} : Idle(o)
    /\ \E query \in Queries : StartRun(r, query)

Next ==
    \E r \in SeqRuns :
        \/ SeqStartRun(r)
        \/ EnsureToolsLoaded(r)
        \/ SendRequest(r)
        \/ TransportFails(r)
        \/ \E raw \in LoopRaws : ReceiveReply(r, raw)
        \/ DispatchStep(r)
        \/ \E outcome \in LoopOutcomes : CallReturns(r, outcome)
        \/ FinishDispatch(r)

Spec == Init /\ [][Next]_vars

----------------------------------------------------------------------------
(* SpecRecovery: round 1 of a run, for every short content.  The agent     *)
(* has its catalogue, the first request is out, and the reply carries no   *)
(* structured tool_calls.                                                   *)

FenceAlphabet == {Fence, JsonWord, Ws, Prose, "{t1,x}", "{ux,x}"}
RecoveryContents ==
    UNION {[1..n -> FenceAlphabet] : n \in 0..MaxContentLen}

LoadedAdvertised == {AdvBoth, AdvOnlyT1}

\* The state of an agent whose first run() has built the catalogue from
\* `adv` and stands at `at` with the given locals.
InRound1(adv, at, log, sent, calls) ==
    /\ messages = log
    /\ ollamaTools = Some(BuildOllamaTools(adv).tools)
    /\ toolClients = Some(BuildOllamaTools(adv).tool_clients)
    /\ advertised = adv
    /\ pc = [r \in Runs |-> IF r = "A" THEN at ELSE "idle"]
    /\ payload = [r \in Runs |->
                    IF r = "A"
                    THEN Payload(sent, BuildOllamaTools(adv).tools)
                    ELSE NoPayload]
    /\ message = [r \in Runs |->
                    IF r = "A" /\ calls # <<>>
                    THEN JDict(ReplyFields("", <<>>, calls))
                    ELSE EmptyDict]
    /\ thinking = [r \in Runs |-> ""]
    /\ content = [r \in Runs |-> <<>>]
    /\ tool_calls = [r \in Runs |-> IF r = "A" THEN calls ELSE <<>>]
    /\ idx = [r \in Runs |-> IF r = "A" /\ calls # <<>> THEN 1 ELSE 0]
    /\ inflight = [r \in Runs |-> NoCall]
    /\ tool_messages = [r \in Runs |-> <<>>]
    /\ final = [r \in Runs |-> <<>>]
    /\ raised = [r \in Runs |-> NoExc]
    /\ invoked = [r \in Runs |-> <<>>]
    /\ emitted = [r \in Runs |-> <<>>]
    /\ nrequests = [r \in Runs |-> IF r = "A" THEN 1 ELSE 0]
    /\ nruns = 1
    /\ nreplies = IF calls # <<>> THEN 1 ELSE 0
    /\ listed = Queried(adv, ClientOrder)
    /\ response = [r \in Runs |-> NoResponse]
    /\ returned = [r \in Runs |->
                     IF r = "A" /\ calls # <<>>
                     THEN Returned(Reply("", <<>>, calls))
                     ELSE NotReturned]
    /\ direct = <<>>

InitRecovery ==
    \E adv \in LoadedAdvertised :
        InRound1(adv, "inflight", <<SystemMsg, UserMsg("q")>>,
                 <<SystemMsg, UserMsg("q")>>, <<>>)

NextRecovery ==
    /\ pc["A"] = "inflight"
    /\ \E text \in RecoveryContents :
           ReceiveReply("A", Reply("", text, <<>>))

SpecRecovery == InitRecovery /\ [][NextRecovery]_vars

----------------------------------------------------------------------------
(* SpecSynthesis: round 1 of a run, for every short content made of JSON   *)
(* lists and objects; the reply carries no structured tool_calls.          *)

JsonAlphabet ==
    {LBracket, RBracket, Comma, "{t1,x}", "{t2,x}", "{t1}", "{[],x}"}
JsonContents ==
    UNION {[1..n -> JsonAlphabet] : n \in 0..MaxContentLen}

NextSynthesis ==
    /\ pc["A"] = "inflight"
    /\ \E text \in JsonContents :
           ReceiveReply("A", Reply("", text, <<>>))

SpecSynthesis == InitRecovery /\ [][NextSynthesis]_vars

----------------------------------------------------------------------------
(* ChatOllama._chat_sync: the HTTP exchange and the reading of its body.   *)
(* A body is a sequence of lexemes: line breaks, blanks, the SSE prefix,   *)
(* the stream terminator, JSON objects that are replies, and other text.   *)

Nl == "<nl>"
DataPrefix == "data:"
Done == "[DONE]"
ReplyLexemes == {"{msg:txt}", "{msg:t1}"}
ReplyOf(lex) ==
    IF lex = "{msg:txt}" THEN Reply("", <<Prose>>, <<>>)
    ELSE Reply("", <<>>, <<CallT1>>)

\* json.loads of a cleaned line
BodyLoads(toks) ==
    IF Len(toks) = 1 /\ toks[1] \in ReplyLexemes
    THEN [ok |-> TRUE, val |-> ReplyOf(toks[1])]
    ELSE JsonLoads(toks)

\* response.text.strip()
RECURSIVE StripText(_)
StripText(toks) ==
    IF toks = <<>> THEN <<>>
    ELSE IF Head(toks) \in {Ws, Nl} THEN StripText(Tail(toks))
    ELSE IF Last(toks) \in {Ws, Nl}
         THEN StripText(SubSeq(toks, 1, Len(toks) - 1))
    ELSE toks

\* text.splitlines()
RECURSIVE SplitFrom(_, _, _)
SplitFrom(toks, cur, acc) ==
    IF toks = <<>> THEN Append(acc, cur)
    ELSE IF Head(toks) = Nl
         THEN SplitFrom(Tail(toks), <<>>, Append(acc, cur))
    ELSE SplitFrom(Tail(toks), Append(cur, Head(toks)), acc)
SplitLines(toks) == SplitFrom(toks, <<>>, <<>>)

\* A variant of KeepLine that takes the data: prefix off a line before it
\* compares the line with the terminator.
KeepLineAfterPrefix(line) ==
    LET stripped == Strip(line)
        cleaned == IF stripped # <<>> /\ Head(stripped) = DataPrefix
                   THEN Strip(Tail(stripped))
                   ELSE stripped
    IN stripped # <<>> /\ cleaned # <<Done>>

\* Lines 84-88: the lines kept
KeepLine(line) == Strip(line) # <<>> /\ Strip(line) # <<Done>>
RawLines(text) == SelectSeq(SplitLines(text), KeepLine)

\* Lines 95-97: one line cleaned
CleanLine(line) ==
    LET stripped == Strip(line)
    IN IF stripped # <<>> /\ Head(stripped) = DataPrefix
       THEN Strip(Tail(stripped))
       ELSE stripped

\* A variant of ChatSync that parses the first of the lines kept.
ChatSyncFirstLine(resp) ==
    IF resp.status # "2xx" THEN [raised |-> "HTTPError"]
    ELSE LET text == StripText(resp.body) IN
         IF text = <<>> THEN [raised |-> "EmptyResponse"]
         ELSE LET raw_lines == RawLines(text) IN
              IF raw_lines = <<>> THEN [raised |-> "UnexpectedResponse"]
              ELSE LET parsed == BodyLoads(CleanLine(Head(raw_lines))) IN
                   IF parsed.ok
                   THEN [raised |-> NoExc, value |-> parsed.val]
                   ELSE [raised |-> "JSONDecodeError"]

\* A variant of ChatSync without the test of lines 81-82.
ChatSyncNoEmptyCheck(resp) ==
    IF resp.status # "2xx" THEN [raised |-> "HTTPError"]
    ELSE LET raw_lines == RawLines(StripText(resp.body)) IN
         IF raw_lines = <<>> THEN [raised |-> "UnexpectedResponse"]
         ELSE LET parsed == BodyLoads(CleanLine(Last(raw_lines))) IN
              IF parsed.ok
              THEN [raised |-> NoExc, value |-> parsed.val]
              ELSE [raised |-> "JSONDecodeError"]

\* _chat_sync on the response requests.post returned: the value it
\* returns, or the exception it raises.  raise_for_status raises for the
\* 4xx and 5xx classes.
ChatSync(resp) ==
    IF resp.status # "2xx" THEN [raised |-> "HTTPError"]
    ELSE LET text == StripText(resp.body) IN
         IF text = <<>> THEN [raised |-> "EmptyResponse"]
         ELSE LET raw_lines == RawLines(text) IN
              IF raw_lines = <<>> THEN [raised |-> "UnexpectedResponse"]
              ELSE LET parsed == BodyLoads(CleanLine(Last(raw_lines))) IN
                   IF parsed.ok
                   THEN [raised |-> NoExc, value |-> parsed.val]
                   ELSE [raised |-> "JSONDecodeError"]

\* Line 130 with the exchange spelled out: the backend's response arrives,
\* _chat_sync reads it, and the round goes on with what it returns or is
\* left by what it raises.
HttpResponds(r, resp) ==
    /\ pc[r] = "inflight"
    /\ response' = [response EXCEPT ![r] = resp]
    /\ IF ChatSync(resp).raised = NoExc
       THEN RoundReads(r, ChatSync(resp).value)
       ELSE RoundAborts(r, ChatSync(resp).raised)

----------------------------------------------------------------------------
(* SpecTransport: a run whose every request is answered by an HTTP         *)
(* response, for every short body.                                         *)

MaxBodyLen == 5

BodyAlphabet ==
    {Nl, Ws, DataPrefix, Done, Prose, "{msg:txt}", "{msg:t1}"}
Bodies == UNION {[1..n -> BodyAlphabet] : n \in 0..MaxBodyLen}
Responses ==
    {Response("2xx", body) : body \in Bodies}
    \cup {Response("4xx", <<Prose>>), Response("5xx", <<"{msg:txt}">>)}

InitTransport ==
    InRound1(AdvBoth, "inflight", <<SystemMsg, UserMsg("q")>>,
             <<SystemMsg, UserMsg("q")>>, <<>>)

NextTransport ==
    \/ /\ pc["A"] = "inflight"
       /\ \E resp \in Responses : HttpResponds("A", resp)
    \/ TransportFails("A")
    \/ SendRequest("A")
    \/ DispatchStep("A")
    \/ CallReturns("A", CallResult(FALSE, <<TextBlock("out")>>))
    \/ FinishDispatch("A")

SpecTransport == InitTransport /\ [][NextTransport]_vars

----------------------------------------------------------------------------
(* SpecCatalogue: the agent's runs, one after the other, against providers *)
(* whose listings differ, collide, fail and change while the agent lives.  *)

CatalogueListings ==
    {Listing(<<>>), Listing(<<"t1">>), Listing(<<"t2">>),
     Listing(<<"t1", "t2">>), ListingFails}
CatalogueAdvertised == [Clients -> CatalogueListings]

\* The environment: the providers change what list_tools() answers.
ProvidersChange(adv) ==
    /\ adv # advertised
    /\ advertised' = adv
    /\ UNCHANGED <<messages, ollamaTools, toolClients, pc, payload, message,
                   thinking, content, tool_calls, idx, inflight,
                   tool_messages, final, raised, invoked, emitted, nrequests,
                   nruns, nreplies, listed, response, returned,
                   direct>>

InitCatalogue == \E adv \in CatalogueAdvertised : InitAgent(adv)

NextCatalogue ==
    \/ \E adv \in CatalogueAdvertised : ProvidersChange(adv)
    \/ \E r \in SeqRuns :
           \/ SeqStartRun(r)
           \/ EnsureToolsLoaded(r)
           \/ SendRequest(r)
           \/ TransportFails(r)
           \/ ReceiveReply(r, Reply("", <<Prose>>, <<>>))

SpecCatalogue == InitCatalogue /\ [][NextCatalogue]_vars

----------------------------------------------------------------------------
(* SpecDispatch: execute_tool_calls on every short list of entries.  The   *)
(* round has recorded its assistant turn and enters the dispatcher.        *)

DispatchEntries ==
    {CallT1, CallT2, CallUx, CallEmptyName, CallNoName, CallNoFunction,
     CallListName}
DispatchCallLists ==
    UNION {[1..n -> DispatchEntries] : n \in 1..MaxCalls}

DispatchOutcomes ==
    {CallRaises("boom"), CallResult(FALSE, <<TextBlock("out")>>), CallNone}

InitDispatch ==
    \E adv \in LoadedAdvertised, calls \in DispatchCallLists :
        InRound1(adv, "dispatching",
                 <<SystemMsg, UserMsg("q"), AssistantMsg(<<>>, "", calls)>>,
                 <<SystemMsg, UserMsg("q")>>, calls)

NextDispatch ==
    \/ DispatchStep("A")
    \/ \E outcome \in DispatchOutcomes : CallReturns("A", outcome)
    \/ FinishDispatch("A")

SpecDispatch == InitDispatch /\ [][NextDispatch]_vars

----------------------------------------------------------------------------
(* SpecRound1Calls: a run whose round-1 reply holds any short structured   *)
(* tool_calls list; the reply of its second round holds none.              *)

NextRound1Calls ==
    \/ /\ pc["A"] = "inflight"
       /\ nreplies = 0
       /\ \E calls \in DispatchCallLists :
              ReceiveReply("A", Reply("", <<>>, calls))
    \/ /\ pc["A"] = "inflight"
       /\ nreplies > 0
       /\ ReceiveReply("A", Reply("", <<Prose>>, <<>>))
    \/ DispatchStep("A")
    \/ CallReturns("A", CallResult(FALSE, <<TextBlock("out")>>))
    \/ FinishDispatch("A")
    \/ SendRequest("A")

SpecRound1Calls ==
    /\ InRound1(AdvBoth, "inflight", <<SystemMsg, UserMsg("q")>>,
                <<SystemMsg, UserMsg("q")>>, <<>>)
    /\ [][NextRound1Calls]_vars

----------------------------------------------------------------------------
(* SpecResults: execute_tool_calls on one request for a known tool, for    *)
(* every short result the provider can return.                             *)

MaxBlocks == 3

ResultBlocks == {TextBlock("a"), TextBlock("b"), TextBlock(""), ImageBlock}
ResultOutcomes ==
    {CallResult(flag, blocks) :
        flag \in BOOLEAN,
        blocks \in UNION {[1..n -> ResultBlocks] : n \in 0..MaxBlocks}}
    \cup {CallNone, CallRaises("boom")}

NextResults ==
    \/ DispatchStep("A")
    \/ /\ inflight["A"].busy
       /\ \E outcome \in ResultOutcomes : CallReturns("A", outcome)
    \/ FinishDispatch("A")

SpecResults ==
    /\ InRound1(AdvBoth, "dispatching",
                <<SystemMsg, UserMsg("q"), AssistantMsg(<<>>, "", <<CallT1>>)>>,
                <<SystemMsg, UserMsg("q")>>, <<CallT1>>)
    /\ [][NextResults]_vars

----------------------------------------------------------------------------
(* SpecArguments: execute_tool_calls on requests for the known tool t1     *)
(* with every kind of arguments value a reply can hold.                    *)

\* The arguments values: a mapping, the empty mapping, null, a non-empty
\* and an empty list, and strings holding a JSON object, a JSON list, the
\* JSON null, no JSON and nothing.
ArgumentValues ==
    {ArgsX, EmptyDict, JNull, JList(<<ArgsX>>), JList(<<>>), JStr(<<"{x}">>),
     JStr(<<LBracket, "{x}", RBracket>>), JStr(<<NullLit>>), JStr(<<Prose>>),
     JStr(<<>>)}
ArgumentEntries ==
    {[function |-> [name |-> "t1", arguments |-> given]] :
        given \in ArgumentValues}
    \cup {[function |-> [name |-> "t1"]]}
ArgumentCallLists ==
    UNION {[1..n -> ArgumentEntries] : n \in 1..MaxCalls}

InitArguments ==
    \E calls \in ArgumentCallLists :
        InRound1(AdvBoth, "dispatching",
                 <<SystemMsg, UserMsg("q"), AssistantMsg(<<>>, "", calls)>>,
                 <<SystemMsg, UserMsg("q")>>, calls)

NextArguments ==
    \/ DispatchStep("A")
    \/ CallReturns("A", CallResult(FALSE, <<TextBlock("out")>>))
    \/ FinishDispatch("A")

SpecArguments == InitArguments /\ [][NextArguments]_vars

----------------------------------------------------------------------------
(* SpecOverlap: two run() calls on one agent as tasks of one event loop.   *)
(* A task gives way to the other only at its awaits: the model call and    *)
(* the provider calls of the dispatcher.                                   *)

\* The payload holds the list self.messages itself, and the worker thread
\* of _chat serializes it while the event loop goes on: the request may
\* carry turns appended after line 123.
PayloadRereads(r) ==
    /\ pc[r] = "inflight"
    /\ payload[r].messages # messages
    /\ payload' = [payload EXCEPT
                     ![r] = Payload(messages, ollamaTools.value)]
    /\ UNCHANGED <<messages, ollamaTools, toolClients, advertised, pc,
                   message, thinking, content, tool_calls, idx, inflight,
                   tool_messages, final, raised, invoked, emitted, nrequests,
                   nruns, nreplies, listed, response, returned, direct>>

NextOverlap ==
    \E r \in Runs :
        \/ StartRun(r, "q")
        \/ EnsureToolsLoaded(r)
        \/ SendRequest(r)
        \/ PayloadRereads(r)
        \/ TransportFails(r)
        \/ ReceiveReply(r, Reply("", <<Prose>>, <<>>))
        \/ ReceiveReply(r, Reply("", <<>>, <<CallT1>>))
        \/ DispatchStep(r)
        \/ CallReturns(r, CallResult(FALSE, <<TextBlock("out")>>))
        \/ FinishDispatch(r)

SpecOverlap == InitAgent(AdvBoth) /\ [][NextOverlap]_vars

----------------------------------------------------------------------------
(* CliApp.run: the prompt loop of the CLI, on a CliChatOllama agent.  A    *)
(* line is a sequence of lexemes: blanks, the empty parentheses, a slash   *)
(* command, a tool name, other text.                                       *)

Parens == "()"
Help == "/help"
Macro == "/useful_function_names"
MacroPrompt == "macro prompt"

\* The methods of the agent: those CliChatOllama defines and those it
\* inherits from ChatOllama.
AgentMethods ==
    {"run", "list_prompts", "list_docs_ids", "get_doc_content", "get_prompt"}

\* The tool names the providers list.
Exposed(adv) ==
    UNION {{adv[c].tools[i] : i \in 1..Len(adv[c].tools)} : c \in Clients}

\* Lines 255-258 of cli.py: the tool names the loop caches.  Looking up a
\* method the agent does not have raises AttributeError, and the except
\* clause leaves the list empty.
CliToolNames(adv) ==
    IF "list_tools" \in AgentMethods THEN Exposed(adv) ELSE {}

\* Lines 300-302: the line without its trailing parentheses.
CliBase(text) ==
    IF text # <<>> /\ Last(text) = Parens
    THEN Strip(SubSeq(text, 1, Len(text) - 1))
    ELSE text

\* The user turn CliChatOllama._process_query appends for a query that is
\* no slash command and mentions no document.
CliPrompt(query) == [query |-> query, context |-> <<>>]

\* agent.run(query), line 114 of chat.py with the _process_query of
\* CliChatOllama: it lists the documents through the provider, whose
\* client is not part of the sources, so the listing answers or raises.
CliRun(r, query, listing) ==
    IF listing = "answers"
    THEN StartRun(r, CliPrompt(query))
    ELSE /\ Idle(r)
         /\ nruns < MaxRuns
         /\ nruns' = nruns + 1
         /\ pc' = [pc EXCEPT ![r] = "failed"]
         /\ raised' = [raised EXCEPT ![r] = "ResourceError"]
         /\ payload' = [payload EXCEPT ![r] = NoPayload]
         /\ message' = [message EXCEPT ![r] = EmptyDict]
         /\ thinking' = [thinking EXCEPT ![r] = ""]
         /\ content' = [content EXCEPT ![r] = <<>>]
         /\ tool_calls' = [tool_calls EXCEPT ![r] = <<>>]
         /\ idx' = [idx EXCEPT ![r] = 0]
         /\ inflight' = [inflight EXCEPT ![r] = NoCall]
         /\ tool_messages' = [tool_messages EXCEPT ![r] = <<>>]
         /\ final' = [final EXCEPT ![r] = <<>>]
         /\ invoked' = [invoked EXCEPT ![r] = <<>>]
         /\ emitted' = [emitted EXCEPT ![r] = <<>>]
         /\ nrequests' = [nrequests EXCEPT ![r] = 0]
         /\ response' = [response EXCEPT ![r] = NoResponse]
         /\ returned' = [returned EXCEPT ![r] = NotReturned]
         /\ UNCHANGED <<messages, ollamaTools, toolClients, advertised,
                        listed, nreplies, direct>>

\* A variant of CliLine that reads the next line without waiting for the
\* call it made.
CliLineNoWait(r, line, listing) ==
    /\ LET text == Strip(line)
           base == CliBase(text)
       IN IF text = <<>> \/ text = <<Help>>
          THEN UNCHANGED vars
          ELSE IF Head(text) = Macro
               THEN CliRun(r, MacroPrompt, listing)
          ELSE IF Len(base) = 1 /\ base[1] \in CliToolNames(advertised)
               THEN /\ direct' = Append(direct, [name |-> base[1],
                                                 arguments |-> EmptyDict])
                    /\ UNCHANGED <<messages, ollamaTools, toolClients,
                                   advertised, pc, payload, message,
                                   thinking, content, tool_calls, idx,
                                   inflight, tool_messages, final, raised,
                                   invoked, emitted, nrequests, nruns,
                                   nreplies, listed, response, returned>>
          ELSE CliRun(r, line, listing)

\* Lines 262-316 of cli.py: one pass of the loop on the line read.  The
\* loop reads a line only when the call it awaited has returned; a call
\* that raised has left CliApp.run by its exception, and the loop is over.
CliLine(r, line, listing) ==
    /\ \A o \in Runs : pc[o] \in {"idle", "done"}
    /\ LET text == Strip(line)
           base == CliBase(text)
       IN IF text = <<>> \/ text = <<Help>>
          THEN UNCHANGED vars
          ELSE IF Head(text) = Macro
               THEN CliRun(r, MacroPrompt, listing)
          ELSE IF Len(base) = 1 /\ base[1] \in CliToolNames(advertised)
               THEN /\ direct' = Append(direct, [name |-> base[1],
                                                 arguments |-> EmptyDict])
                    /\ UNCHANGED <<messages, ollamaTools, toolClients,
                                   advertised, pc, payload, message,
                                   thinking, content, tool_calls, idx,
                                   inflight, tool_messages, final, raised,
                                   invoked, emitted, nrequests, nruns,
                                   nreplies, listed, response, returned>>
          ELSE CliRun(r, line, listing)

----------------------------------------------------------------------------
(* SpecCli: the CLI loop on one agent.                                     *)

CliLines ==
    {<<"t1">>, <<"t1", Parens>>, <<Ws, "t2", Ws, Parens, Ws>>, <<Prose>>,
     <<"ux">>, <<Ws>>, <<Help>>, <<Macro>>}

\* Each agent.run(...) of the loop is a call of its own: it takes any
\* frame that is free.
NextCli ==
    \E r \in Runs :
        \/ \E line \in CliLines, listing \in {"answers", "raises"} :
               CliLine(r, line, listing)
        \/ EnsureToolsLoaded(r)
        \/ SendRequest(r)
        \/ TransportFails(r)
        \/ \E raw \in {Reply("", <<Prose>>, <<>>),
                        Reply("", <<>>, <<CallT1>>)} :
               ReceiveReply(r, raw)
        \/ DispatchStep(r)
        \/ CallReturns(r, CallResult(FALSE, <<TextBlock("out")>>))
        \/ FinishDispatch(r)

SpecCli == InitAgent(AdvBoth) /\ [][NextCli]_vars

----------------------------------------------------------------------------
(* Vocabulary of the properties.                                           *)

\* The requests a reply message yields: its structured tool_calls, else
\* what the recovery pass synthesizes from its content.
StructuredCalls(msg) == Get(msg.fields, "tool_calls", <<>>)
ReplyContent(msg) == Get(msg.fields, "content", <<>>)
RecoveredCalls(msg, tool_clients) ==
    Recovery(ReplyContent(msg), tool_clients).tool_calls
Yields(msg, tool_clients) ==
    IF StructuredCalls(msg) # <<>> THEN StructuredCalls(msg)
    ELSE RecoveredCalls(msg, tool_clients)

\* An entry is a tool request when its function carries a string as name;
\* it is named when that name is not empty.
IsToolRequest(call) ==
    /\ Has(call, "function")
    /\ Has(call.function, "name")
    /\ call.function.name \in StrNames
IsNamed(call) ==
    /\ Has(call, "function")
    /\ Has(call.function, "name")
    /\ Truthy(call.function.name)
NamedCalls(calls) == SelectSeq(calls, IsNamed)

\* The turn that a block of tool turns around position i follows.
BlockStart(i) ==
    CHOOSE j \in 1..(i - 1) :
        /\ messages[j].role # "tool"
        /\ \A k \in (j + 1)..(i - 1) : messages[k].role = "tool"

----------------------------------------------------------------------------
(* C1 (Spec).  run() returns in exactly the first round whose reply yields *)
(* no tool request; a round whose reply yields at least one request does   *)
(* not return: it dispatches, and the loop issues another model request.   *)
(* Stated for the steps of a run: a reply read by the round leads to Done  *)
(* exactly when it yields nothing, and the dispatcher, once entered, runs  *)
(* to its end and hands back to AwaitingModel.                             *)
(* Violated: an entry named by a JSON array makes execute_tool_calls       *)
(* raise, and the run leaves by the exception instead.                     *)
C1_DoneExactlyWhenNoRequests ==
    [][\A r \in SeqRuns :
         /\ (pc[r] = "inflight" /\ pc'[r] \in {"done", "dispatching"})
              => (pc'[r] = "done"
                    <=> Yields(message'[r], toolClients.value) = <<>>)
         /\ pc[r] = "dispatching" => pc'[r] \in {"dispatching", "awaiting"}
         /\ pc[r] = "awaiting" => pc'[r] \in {"awaiting", "inflight"}]_vars

----------------------------------------------------------------------------
(* C2 (Spec).  Whenever run() has returned, its result is the content of   *)
(* the last turn of the log, which is an assistant turn without            *)
(* tool_calls.                                                             *)
C2_FinalIsLastAssistantContent ==
    \A r \in SeqRuns :
        pc[r] = "done"
            => /\ Last(messages).role = "assistant"
               /\ final[r] = Last(messages).content
               /\ ~Has(Last(messages), "tool_calls")

\* A run that has returned a non-empty answer after a round of tools.
C2_Witness ==
    /\ pc["A"] = "done"
    /\ final["A"] = <<Prose>>
    /\ nrequests["A"] = 2
    /\ \E i \in 1..Len(messages) : messages[i].role = "tool"

----------------------------------------------------------------------------
(* C3 (Spec).  As claimed: a round-1 reply with no structured tool_calls   *)
(* and a non-empty content ends the run in that round, with that content   *)
(* as the answer and no tool dispatched.                                    *)
C3_Original ==
    \A r \in SeqRuns :
        (/\ nrequests[r] = 1
         /\ pc[r] \notin {"ensure", "awaiting", "inflight"}
         /\ message[r].type = "dict"
         /\ StructuredCalls(message[r]) = <<>>
         /\ ReplyContent(message[r]) # <<>>)
            => /\ pc[r] = "done"
               /\ final[r] = ReplyContent(message[r])
               /\ invoked[r] = <<>>
               /\ tool_messages[r] = <<>>

(* C3 as amended: the same, for a content from which the recovery pass     *)
(* synthesizes no tool request.                                            *)
C3_OneRoundWhenNothingRecovered ==
    \A r \in SeqRuns :
        (/\ nrequests[r] = 1
         /\ pc[r] \notin {"ensure", "awaiting", "inflight"}
         /\ message[r].type = "dict"
         /\ StructuredCalls(message[r]) = <<>>
         /\ ReplyContent(message[r]) # <<>>
         /\ RecoveredCalls(message[r], toolClients.value) = <<>>)
            => /\ pc[r] = "done"
               /\ final[r] = ReplyContent(message[r])
               /\ Last(messages).content = ReplyContent(message[r])
               /\ invoked[r] = <<>>
               /\ tool_messages[r] = <<>>

\* Round 1 answered by a JSON object that names no known tool: one round.
C3_Witness ==
    /\ pc["A"] = "done"
    /\ nrequests["A"] = 1
    /\ message["A"].type = "dict"
    /\ ReplyContent(message["A"]) = <<"{ux,x}">>
    /\ final["A"] = <<"{ux,x}">>

----------------------------------------------------------------------------
(* C4 (Spec).  The conversation log is append-only: over every step, and   *)
(* so over every sequence of runs, the log before is a prefix of the log   *)
(* after.                                                                  *)
C4_LogAppendOnly == [][IsPrefix(messages, messages')]_vars

\* A second run on a log that holds the first run's tool round.
C4_Witness ==
    /\ nruns = 2
    /\ pc["A"] = "done"
    /\ \E i \in 1..Len(messages) : messages[i].role = "tool"
    /\ Cardinality({i \in 1..Len(messages) : messages[i].role = "user"}) = 2

----------------------------------------------------------------------------
----------------------------------------------------------------------------
(* C6 (SpecDispatch).  execute_tool_calls, given N requests, returns       *)
(* exactly N tool messages, the i-th being the result of the i-th          *)
(* request.  Stated for lists whose entries all carry a function with a    *)
(* non-empty name: the call does not raise, and once it has returned, the  *)
(* i-th message was emitted for the i-th entry and bears its name.         *)
(* Violated: an entry named by a JSON array raises at the ownership        *)
(* lookup, and no sequence is returned at all.                             *)
C6_OneMessagePerRequest ==
    \A r \in SeqRuns :
        (\A i \in 1..Len(tool_calls[r]) : IsNamed(tool_calls[r][i]))
            => /\ pc[r] # "failed"
               /\ pc[r] = "awaiting"
                    => /\ Len(tool_messages[r]) = Len(tool_calls[r])
                       /\ \A i \in 1..Len(tool_messages[r]) :
                              /\ emitted[r][i] = i
                              /\ tool_messages[r][i].tool_name
                                    = tool_calls[r][i].function.name

----------------------------------------------------------------------------
(* C7 (SpecDispatch).  A request whose name is not a key of the ownership  *)
(* map raises no exception and, once processed, has exactly one tool       *)
(* message, the "no client exposes tool" text, and no provider call.       *)
(* Stated for non-empty names.  Violated: a name that is a JSON array is   *)
(* not a key, and looking it up raises.                                    *)
C7_UnknownToolOneErrorMessage ==
    \A r \in SeqRuns : \A i \in 1..Len(tool_calls[r]) :
        (/\ IsNamed(tool_calls[r][i])
         /\ tool_calls[r][i].function.name \notin DOMAIN toolClients.value)
            => /\ ~(pc[r] = "failed" /\ idx[r] = i)
               /\ i < idx[r]
                    => /\ Cardinality({k \in 1..Len(emitted[r]) :
                                          emitted[r][k] = i}) = 1
                       /\ \A k \in 1..Len(emitted[r]) :
                              emitted[r][k] = i
                                  => tool_messages[r][k]
                                       = ToolMsg(tool_calls[r][i].function.name,
                                                 NoClientText(tool_calls[r][i].function.name))
                       /\ \A j \in 1..Len(invoked[r]) :
                              invoked[r][j].index # i

----------------------------------------------------------------------------
(* C8 (SpecDispatch).  execute_tool_calls never raises to the agent loop,  *)
(* whatever the entries' names, arguments and the providers' outcomes.     *)
(* Violated: tool_clients.get(tool_name) raises TypeError for a name that  *)
(* is a JSON array, outside every try block.                               *)
C8_DispatchNeverRaises ==
    \A r \in SeqRuns : ~(pc[r] = "failed" /\ raised[r] = "TypeError")

----------------------------------------------------------------------------
(* C9 (Spec).  A round whose assistant turn requests an unknown tool does  *)
(* not end the run: the dispatcher runs to its end, the error text is a    *)
(* tool turn of the log, and the next model request carries the log with   *)
(* that turn.                                                              *)
(* Violated: when the same turn also holds an entry named by a JSON array, *)
(* the dispatcher raises and the run ends in that round.                   *)
RequestsUnknownTool(calls, tool_clients) ==
    \E i \in 1..Len(calls) :
        /\ IsToolRequest(calls[i])
        /\ Truthy(calls[i].function.name)
        /\ calls[i].function.name \notin DOMAIN tool_clients

C9_UnknownToolKeepsLooping ==
    [][\A r \in SeqRuns :
         /\ (pc[r] = "dispatching"
             /\ RequestsUnknownTool(tool_calls[r], toolClients.value))
              => /\ pc'[r] \in {"dispatching", "awaiting"}
                 /\ pc'[r] = "awaiting"
                      => \A i \in 1..Len(tool_calls[r]) :
                             (/\ IsToolRequest(tool_calls[r][i])
                              /\ Truthy(tool_calls[r][i].function.name)
                              /\ tool_calls[r][i].function.name
                                    \notin DOMAIN toolClients.value)
                                => \E k \in 1..Len(messages') :
                                       messages'[k]
                                         = ToolMsg(tool_calls[r][i].function.name,
                                                   NoClientText(tool_calls[r][i].function.name))
         /\ (pc[r] = "awaiting" /\ pc'[r] = "inflight")
              => payload'[r].messages = messages]_vars

----------------------------------------------------------------------------
(* C10 (SpecRecovery).  When the content holds fenced blocks, the round's  *)
(* tool requests and recorded content are those of the last block alone:   *)
(* the requests are what the last block's inner text yields, whatever the  *)
(* earlier blocks hold, and the content is cleared only when it yields     *)
(* some.  So a well-formed call for a known tool in an earlier block       *)
(* yields nothing when the last block is malformed, and the content stays. *)
FencePositions(text) == {i \in 1..Len(text) : text[i] = Fence}

\* The fenced blocks of a text, left to right without overlap: an opening
\* fence with an even number of fences before it, and the next fence.
Blocks(text) ==
    {b \in FencePositions(text) \X FencePositions(text) :
        /\ b[1] < b[2]
        /\ \A f \in FencePositions(text) : ~(b[1] < f /\ f < b[2])
        /\ Cardinality({f \in FencePositions(text) : f < b[1]}) % 2 = 0}
LastBlock(text) ==
    CHOOSE b \in Blocks(text) : \A c \in Blocks(text) : c[1] <= b[1]
FirstBlock(text) ==
    CHOOSE b \in Blocks(text) : \A c \in Blocks(text) : b[1] <= c[1]
Inner(text, b) ==
    LET inner == SubSeq(text, b[1] + 1, b[2] - 1)
    IN Strip(IF inner # <<>> /\ inner[1] = JsonWord THEN Tail(inner) ELSE inner)
BlockYield(text, b, tool_clients) ==
    LET parsed == JsonLoads(Inner(text, b))
    IN IF ~parsed.ok THEN <<>>
       ELSE LET got == CallsFromObj(parsed.val, tool_clients)
            IN IF got.raised THEN <<>> ELSE got.calls

C10_OnlyLastBlockCounts ==
    \A r \in SeqRuns :
        (/\ pc[r] \in {"done", "dispatching"}
         /\ message[r].type = "dict"
         /\ StructuredCalls(message[r]) = <<>>
         /\ Blocks(ReplyContent(message[r])) # {})
            => LET text == ReplyContent(message[r])
                   yield == BlockYield(text, LastBlock(text), toolClients.value)
               IN /\ tool_calls[r] = yield
                  /\ content[r] = (IF yield = <<>> THEN text ELSE <<>>)
                  /\ Last(messages).content = content[r]
                  /\ (yield = <<>>) <=> (pc[r] = "done")

\* Two blocks, the earlier a well-formed call of a known tool, the last
\* malformed: no request, and the content was recorded as it came.
C10_Witness ==
    LET text == ReplyContent(message["A"])
    IN /\ pc["A"] = "done"
       /\ message["A"].type = "dict"
       /\ Cardinality(Blocks(text)) = 2
       /\ BlockYield(text, FirstBlock(text), toolClients.value) # <<>>
       /\ ~JsonLoads(Inner(text, LastBlock(text))).ok
       /\ tool_calls["A"] = <<>>
       /\ content["A"] = text
       /\ final["A"] = text

----------------------------------------------------------------------------
(* C11 (SpecRecovery).  The content of the recorded assistant turn is      *)
(* empty exactly when the model's content was empty or the round has       *)
(* requests that the reply did not carry in its structured field, i.e.     *)
(* the recovery pass synthesized them; and whenever it synthesized some,   *)
(* the recorded content is empty whatever the text was.                    *)
Synthesized(r) ==
    /\ StructuredCalls(message[r]) = <<>>
    /\ tool_calls[r] # <<>>

C11_ContentEmptyIffClearedOrEmpty ==
    \A r \in SeqRuns :
        (pc[r] \in {"done", "dispatching"} /\ message[r].type = "dict")
            => /\ Last(messages).role = "assistant"
               /\ (Last(messages).content = <<>>)
                     <=> (ReplyContent(message[r]) = <<>> \/ Synthesized(r))
               /\ Synthesized(r) => Last(messages).content = <<>>

\* A call recovered from a fenced block with prose before it: the recorded
\* content is empty.
C11_Witness ==
    /\ pc["A"] = "dispatching"
    /\ Synthesized("A")
    /\ Len(ReplyContent(message["A"])) > 3
    /\ ReplyContent(message["A"])[1] = Prose
    /\ Last(messages).role = "assistant"
    /\ Last(messages).content = <<>>
    /\ Has(Last(messages), "tool_calls")

----------------------------------------------------------------------------
(* C12 (SpecRecovery).  When the round has no tool request after the       *)
(* recovery pass, the recorded assistant turn has exactly the model's      *)
(* content and no tool_calls, the run ends in that round with that         *)
(* content as its answer, and no reply leaves run() by an exception.       *)
C12_FailedRecoveryLeavesContent ==
    \A r \in SeqRuns :
        /\ pc[r] # "failed"
        /\ (/\ pc[r] \in {"done", "dispatching"}
            /\ message[r].type = "dict"
            /\ StructuredCalls(message[r]) = <<>>
            /\ tool_calls[r] = <<>>)
              => /\ pc[r] = "done"
                 /\ Last(messages)
                      = [role |-> "assistant",
                         content |-> ReplyContent(message[r])]
                 /\ final[r] = ReplyContent(message[r])
                 /\ raised[r] = NoExc

\* A fenced block naming an unknown tool, with blanks around: the content
\* is recorded and returned as it came.
C12_Witness ==
    /\ pc["A"] = "done"
    /\ ReplyContent(message["A"]) = <<Ws, Fence, JsonWord, "{ux,x}", Fence, Ws>>
    /\ final["A"] = <<Ws, Fence, JsonWord, "{ux,x}", Fence, Ws>>
    /\ ~Has(Last(messages), "tool_calls")

----------------------------------------------------------------------------
(* C13 (Spec).  When the reply's structured tool_calls is not empty, the   *)
(* round dispatches exactly those entries and records the model's content  *)
(* as it came, whatever that content holds: the requests handed to the     *)
(* dispatcher are the structured ones, every provider call is made for     *)
(* one of them, and the assistant turn has the content unmodified.         *)
C13_StructuredCallsSkipRecovery ==
    \A r \in SeqRuns :
        (/\ pc[r] = "dispatching"
         /\ message[r].type = "dict"
         /\ StructuredCalls(message[r]) # <<>>)
            => /\ tool_calls[r] = StructuredCalls(message[r])
               /\ content[r] = ReplyContent(message[r])
               /\ Last(messages).role = "assistant"
               /\ Last(messages).content = ReplyContent(message[r])
               /\ Last(messages).tool_calls = StructuredCalls(message[r])
               /\ \A j \in 1..Len(invoked[r]) :
                      invoked[r][j].name
                        = StructuredCalls(message[r])[invoked[r][j].index]
                              .function.name

\* A reply asking for t2 in its structured field while its content holds a
\* fenced call of t1: t2 was called, and the content is recorded.
C13_Witness ==
    /\ pc["A"] = "dispatching"
    /\ StructuredCalls(message["A"]) = <<CallT2>>
    /\ ReplyContent(message["A"]) = FencedCall
    /\ Last(messages).content = FencedCall
    /\ Len(invoked["A"]) = 1
    /\ invoked["A"][1].name = "t2"
    /\ idx["A"] = 2

----------------------------------------------------------------------------
(* C14 (SpecSynthesis).  The requests synthesized by the recovery pass     *)
(* are, in depth-first left-to-right order, the elements of the parsed     *)
(* value that are objects with a name and an arguments key and whose name  *)
(* is a key of the ownership map; every other element is dropped.          *)
(* Violated: an element whose name is a JSON array makes the membership    *)
(* test raise, and the requests of all the other elements are lost.        *)
RECURSIVE Matches(_, _), MatchesIn(_, _)
Matches(val, tool_clients) ==
    IF val.type = "dict"
    THEN IF /\ Has(val.fields, "name")
            /\ Has(val.fields, "arguments")
            /\ val.fields.name \in DOMAIN tool_clients
         THEN <<val>>
         ELSE <<>>
    ELSE IF val.type = "list" THEN MatchesIn(val.items, tool_clients)
    ELSE <<>>
MatchesIn(items, tool_clients) ==
    IF items = <<>> THEN <<>>
    ELSE Matches(Head(items), tool_clients)
            \o MatchesIn(Tail(items), tool_clients)

\* The request synthesized from a matching element.
RequestOf(obj) ==
    [function |-> [name |-> obj.fields.name,
                   arguments |-> IF Falsy(obj.fields.arguments)
                                 THEN EmptyDict
                                 ELSE obj.fields.arguments]]

\* The JSON candidate of a content, by its blocks.
CandidateOf(text) ==
    IF Blocks(text) = {} THEN Strip(text) ELSE Inner(text, LastBlock(text))

C14_SynthesizedAreTheMatches ==
    \A r \in SeqRuns :
        (/\ pc[r] \in {"done", "dispatching"}
         /\ message[r].type = "dict"
         /\ StructuredCalls(message[r]) = <<>>
         /\ JsonLoads(CandidateOf(ReplyContent(message[r]))).ok)
            => LET found == Matches(JsonLoads(CandidateOf(
                                       ReplyContent(message[r]))).val,
                                    toolClients.value)
               IN /\ Len(tool_calls[r]) = Len(found)
                  /\ \A k \in 1..Len(found) :
                         tool_calls[r][k] = RequestOf(found[k])

----------------------------------------------------------------------------
(* C15 (SpecCatalogue).  The catalogue is built at most once per agent:    *)
(* once both cached fields are set, no step calls a provider's             *)
(* list_tools() again or changes the cached descriptor list or ownership   *)
(* map, whatever the providers advertise by then.                          *)
C15_CatalogueBuiltOnce ==
    [][(~ollamaTools.isNone /\ ~toolClients.isNone)
          => /\ ollamaTools' = ollamaTools
             /\ toolClients' = toolClients
             /\ listed' = listed]_vars

\* A second run that went through with the catalogue of the first, after
\* the providers had changed their listings.
C15_Witness ==
    /\ nruns = 2
    /\ pc["A"] = "done"
    /\ listed = <<"p1", "p2">>
    /\ ~ollamaTools.isNone
    /\ ~BuildOllamaTools(advertised).raised
    /\ BuildOllamaTools(advertised).tools # ollamaTools.value
    /\ payload["A"].tools = ollamaTools.value

----------------------------------------------------------------------------
(* C16 (SpecCatalogue).  Tool names are unique in the built catalogue:     *)
(* the descriptor list holds at most one descriptor per name, that of the  *)
(* last provider listing the name.                                         *)
(* Violated: build_ollama_tools appends a descriptor for every tool of     *)
(* every provider, so a name listed by two providers has two descriptors.  *)
C16_DescriptorNamesUnique ==
    ~ollamaTools.isNone
        => /\ \A i, j \in 1..Len(ollamaTools.value) :
                  i # j => ollamaTools.value[i].function.name
                             # ollamaTools.value[j].function.name
           /\ \A i \in 1..Len(ollamaTools.value) :
                  ollamaTools.value[i].function.description
                    = toolClients.value[ollamaTools.value[i].function.name]

----------------------------------------------------------------------------
(* C17 (SpecCatalogue).  When a provider's list_tools() fails during the   *)
(* build, the failure leaves run() before any model request is sent and    *)
(* nothing is cached: both cached fields stay unset, and a run that finds  *)
(* them unset calls the providers again from the first one.                *)
C17_ListingFailureCachesNothing ==
    [][\A r \in SeqRuns :
         /\ (/\ pc[r] = "ensure" /\ pc'[r] # "ensure"
             /\ (ollamaTools.isNone \/ toolClients.isNone))
              => /\ Len(listed') > Len(listed)
                 /\ listed'[Len(listed) + 1] = ClientOrder[1]
                 /\ (\E c \in Clients : ~advertised[c].ok)
                      => /\ pc'[r] = "failed"
                         /\ raised'[r] = "ListToolsError"
         /\ raised'[r] = "ListToolsError"
              => /\ pc'[r] = "failed"
                 /\ ollamaTools'.isNone
                 /\ toolClients'.isNone
                 /\ nrequests'[r] = 0
                 /\ payload'[r] = NoPayload]_vars

\* Two runs, each stopped by the second provider's listing after the first
\* provider had answered: nothing is cached, and both were asked twice.
C17_Witness ==
    /\ nruns = 2
    /\ pc["A"] = "failed"
    /\ raised["A"] = "ListToolsError"
    /\ listed = <<"p1", "p2", "p1", "p2">>
    /\ ollamaTools.isNone
    /\ toolClients.isNone
    /\ nrequests["A"] = 0

----------------------------------------------------------------------------
(* Vocabulary of the transport properties: the lines of a body by their    *)
(* positions.  A line is a maximal stretch without line break; it counts   *)
(* when it holds something other than blanks and is not the terminator.    *)
LineSpans(body) ==
    {sp \in (1..Len(body)) \X (1..Len(body)) :
        /\ sp[1] <= sp[2]
        /\ \A k \in sp[1]..sp[2] : body[k] # Nl
        /\ (sp[1] = 1 \/ body[sp[1] - 1] = Nl)
        /\ (sp[2] = Len(body) \/ body[sp[2] + 1] = Nl)}
Inked(body, sp) == {k \in sp[1]..sp[2] : body[k] # Ws}
Trimmed(body, sp) ==
    LET first == CHOOSE k \in Inked(body, sp) :
                     \A m \in Inked(body, sp) : k <= m
        last == CHOOSE k \in Inked(body, sp) :
                    \A m \in Inked(body, sp) : m <= k
    IN SubSeq(body, first, last)
CountedLines(body) ==
    {sp \in LineSpans(body) :
        Inked(body, sp) # {} /\ Trimmed(body, sp) # <<Done>>}
LastCounted(body) ==
    CHOOSE sp \in CountedLines(body) :
        \A other \in CountedLines(body) : other[1] <= sp[1]
\* The text of the line handed to the JSON decoder.
Decoded(body, sp) ==
    LET line == Trimmed(body, sp)
    IN IF Head(line) = DataPrefix THEN Strip(Tail(line)) ELSE line

Answered(r) == response[r].arrived /\ response[r].status = "2xx"
TransportErrors ==
    {"TransportError", "HTTPError", "EmptyResponse", "UnexpectedResponse",
     "JSONDecodeError"}

----------------------------------------------------------------------------
(* C18 (SpecTransport).  For a 2xx body with at least one line that is     *)
(* neither blank nor the terminator, what _chat_sync returns is the JSON   *)
(* value of the last such line, its data: prefix removed, and of that      *)
(* line alone: it returns that value when the line is JSON and fails in    *)
(* the decoder otherwise, whatever the earlier lines hold.                 *)
C18_LastLineOnly ==
    \A r \in SeqRuns :
        (Answered(r) /\ CountedLines(response[r].body) # {})
            => LET body == response[r].body
                   value == BodyLoads(Decoded(body, LastCounted(body)))
               IN IF value.ok
                  THEN /\ returned[r] = Returned(value.val)
                       /\ raised[r] \notin TransportErrors
                  ELSE /\ raised[r] = "JSONDecodeError"
                       /\ ~returned[r].done

\* A line that is no JSON, then an SSE line with a reply: the reply is
\* what the round read.
C18_Witness ==
    /\ Answered("A")
    /\ response["A"].body = <<Prose, Nl, DataPrefix, Ws, "{msg:txt}">>
    /\ returned["A"] = Returned(ReplyOf("{msg:txt}"))
    /\ pc["A"] = "done"
    /\ final["A"] = <<Prose>>

----------------------------------------------------------------------------
(* C19 (SpecTransport).  A 2xx response whose body is empty or holds only  *)
(* blanks and line breaks makes _chat_sync fail with the empty-response    *)
(* error, not with a decoder error, and nothing is returned to the round.  *)
C19_EmptyBodyFails ==
    \A r \in SeqRuns :
        (/\ Answered(r)
         /\ \A k \in 1..Len(response[r].body) :
                response[r].body[k] \in {Ws, Nl})
            => /\ raised[r] = "EmptyResponse"
               /\ pc[r] = "failed"
               /\ ~returned[r].done

\* A body of blanks and a line break.
C19_Witness ==
    /\ Answered("A")
    /\ response["A"].body = <<Ws, Nl, Ws>>
    /\ raised["A"] = "EmptyResponse"
    /\ pc["A"] = "failed"

----------------------------------------------------------------------------
(* C20 (SpecTransport).  A transport failure in a round -- no response, a  *)
(* status outside 2xx, an empty body, no line left, or a last line that    *)
(* is no JSON -- leaves run() by its exception in that round: the log is   *)
(* as it was when the request was sent, with no assistant turn for the     *)
(* round, and no tool is dispatched.                                       *)
TransportFailure(resp) ==
    \/ ~resp.arrived
    \/ resp.status # "2xx"
    \/ CountedLines(resp.body) = {}
    \/ ~BodyLoads(Decoded(resp.body, LastCounted(resp.body))).ok

C20_TransportFailureAbortsRound ==
    [][\A r \in SeqRuns :
         (/\ pc[r] = "inflight" /\ pc'[r] # "inflight"
          /\ TransportFailure(response'[r]))
            => /\ pc'[r] = "failed"
               /\ raised'[r] \in TransportErrors
               /\ messages' = messages
               /\ messages' = payload[r].messages
               /\ invoked'[r] = invoked[r]
               /\ tool_messages'[r] = tool_messages[r]
               /\ inflight'[r] = NoCall
               /\ ~returned'[r].done]_vars

\* Round 2, after a round of tools, answered by a body whose last line is
\* no JSON: the log ends with the tool turn.
C20_Witness ==
    /\ pc["A"] = "failed"
    /\ nrequests["A"] = 2
    /\ Answered("A")
    /\ response["A"].body = <<"{msg:txt}", Nl, Prose>>
    /\ raised["A"] = "JSONDecodeError"
    /\ Last(messages).role = "tool"
    /\ messages = payload["A"].messages

----------------------------------------------------------------------------
(* C21 (Spec).  Whatever JSON value _chat returns, the round does not      *)
(* fail over its shape: run() does not raise in reading it and appends an  *)
(* assistant turn; and when the value is no object, has no message, or has *)
(* a message that is no object, the round goes on with an empty thinking,  *)
(* content and tool_calls.                                                 *)
(* Violated: for a message that is null (or any non-object), line 131      *)
(* hands it on as it is, and message.get at line 133 raises                *)
(* AttributeError, which leaves run() with no assistant turn appended.     *)
C21_ShapeNeverFailsRound ==
    [][\A r \in SeqRuns :
         (pc[r] = "inflight" /\ returned'[r].done)
            => LET raw == returned'[r].value
                   odd == \/ raw.type # "dict"
                          \/ ~Has(raw.fields, "message")
                          \/ raw.fields.message.type # "dict"
               IN /\ pc'[r] # "failed"
                  /\ raised'[r] = NoExc
                  /\ messages' = Append(messages, Last(messages'))
                  /\ Last(messages').role = "assistant"
                  /\ odd => /\ thinking'[r] = ""
                            /\ content'[r] = <<>>
                            /\ tool_calls'[r] = <<>>
                            /\ Last(messages')
                                 = [role |-> "assistant", content |-> <<>>]]_vars

----------------------------------------------------------------------------
(* C22 (Spec).  Every round in which _chat returned a reply appends        *)
(* exactly one assistant turn, in the step that reads the reply and so     *)
(* before any tool of the round is dispatched, whether or not the round    *)
(* is the last; the turn has a tool_calls field exactly when the round     *)
(* has a request and a thinking field exactly when the reply's thinking    *)
(* is not empty; and no other step appends an assistant turn.              *)
(* Violated through C21: a reply whose message is null raises at line 133  *)
(* before line 192, and the round appends no assistant turn.               *)
C22_OneAssistantTurnPerReply ==
    [][\A r \in SeqRuns :
         LET turns(log) == {i \in 1..Len(log) : log[i].role = "assistant"}
         IN IF pc[r] = "inflight" /\ returned'[r].done
            THEN LET raw == returned'[r].value
                     thought ==
                         IF /\ raw.type = "dict"
                            /\ Has(raw.fields, "message")
                            /\ raw.fields.message.type = "dict"
                         THEN Get(raw.fields.message.fields, "thinking", "")
                         ELSE ""
                     turn == Last(messages')
                 IN /\ messages' = Append(messages, turn)
                    /\ turn.role = "assistant"
                    /\ Has(turn, "tool_calls") <=> tool_calls'[r] # <<>>
                    /\ Has(turn, "tool_calls")
                         => turn.tool_calls = tool_calls'[r]
                    /\ Has(turn, "thinking") <=> thought # ""
                    /\ pc'[r] \in {"done", "dispatching"}
                    /\ pc'[r] = "done" => invoked'[r] = invoked[r]
                    /\ pc'[r] = "dispatching"
                         => invoked'[r] = <<>> /\ tool_messages'[r] = <<>>
                    /\ ~inflight'[r].busy
            ELSE Cardinality(turns(messages'))
                   = Cardinality(turns(messages))]_vars

----------------------------------------------------------------------------
(* C23 (Spec).  The rounds of a run follow one another: the request of a   *)
(* later round is sent only when the dispatcher has gone through every     *)
(* entry of the round before, every provider call it made is over, and     *)
(* its tool turns are the end of the log the request carries; and while a  *)
(* model request is in flight no provider call is, and conversely.         *)
C23_RoundsSequential ==
    [][\A r \in SeqRuns :
         LET pending(rr) == {j \in 1..Len(invoked[rr]) :
                                invoked[rr][j].outcome = Pending}
         IN /\ (pc[r] = "awaiting" /\ pc'[r] = "inflight" /\ nrequests[r] >= 1)
                 => /\ idx[r] > Len(tool_calls[r])
                    /\ ~inflight[r].busy
                    /\ pending(r) = {}
                    /\ Len(messages) >= Len(tool_messages[r])
                    /\ SubSeq(messages,
                              Len(messages) - Len(tool_messages[r]) + 1,
                              Len(messages)) = tool_messages[r]
                    /\ payload'[r].messages = messages
            /\ pc[r] = "inflight" => ~inflight[r].busy /\ pending(r) = {}
            /\ inflight[r].busy
                 => pc[r] = "dispatching" /\ Cardinality(pending(r)) = 1
            /\ pc[r] = "dispatching" /\ pc'[r] = "awaiting"
                 => ~inflight[r].busy /\ pending(r) = {}]_vars

\* The second request of a run, out after a round of two provider calls:
\* both are over and their tool turns end the log.
C23_Witness ==
    /\ pc["A"] = "inflight"
    /\ nrequests["A"] = 2
    /\ Len(invoked["A"]) = 2
    /\ \A j \in 1..2 : invoked["A"][j].outcome # Pending
    /\ Len(tool_messages["A"]) = 2
    /\ Last(messages) = tool_messages["A"][2]
    /\ payload["A"].messages = messages

----------------------------------------------------------------------------
(* C24 (Spec).  The loop of run() has no cap on its rounds.  run() returns *)
(* only in a round whose reply yields no tool request, so against replies  *)
(* that all carry one it never returns; a round whose dispatch has         *)
(* returned always goes on to another model request, however many rounds   *)
(* the run has made (here: as long as the model lets a reply arrive); and  *)
(* a run whose every round asked for a tool gets as far as that.           *)
C24_NoCapOnRounds ==
    \A r \in SeqRuns :
        /\ pc[r] = "done"
             => /\ tool_calls[r] = <<>>
                /\ ~Has(Last(messages), "tool_calls")
        /\ (pc[r] = "awaiting" /\ nreplies < MaxReplies)
             => ENABLED SendRequest(r)
        /\ (pc[r] = "dispatching" /\ ~inflight[r].busy
              /\ idx[r] > Len(tool_calls[r]))
             => ENABLED FinishDispatch(r)

\* A run in which every reply so far asked for a tool, about to send the
\* request of one more round than the model has replies for.
C24_Witness ==
    /\ nruns = 1
    /\ pc["A"] = "awaiting"
    /\ nrequests["A"] = MaxReplies
    /\ nreplies = MaxReplies
    /\ Cardinality({i \in 1..Len(messages) :
                       /\ messages[i].role = "assistant"
                       /\ Has(messages[i], "tool_calls")}) = MaxReplies

----------------------------------------------------------------------------
(* C25 (SpecCli).  A line that, trimmed and without an optional trailing   *)
(* (), is the name of a tool the provider exposes is handled by a direct   *)
(* call of that tool: whenever the loop can read a line, reading such a    *)
(* line calls the tool, and it neither starts a run, nor sends a model     *)
(* request, nor appends a turn to the log.                                 *)
(* Violated: the loop caches the names through agent.list_tools(), which   *)
(* the agent does not have; the AttributeError is swallowed, the cached    *)
(* list is empty, and every such line is sent to the model as a prompt.    *)
C25_ToolNameLineCallsDirectly ==
    \A line \in CliLines :
        LET base == CliBase(Strip(line))
        IN (/\ \A o \in Runs : pc[o] \in {"idle", "done"}
            /\ nruns < MaxRuns
            /\ Len(base) = 1
            /\ base[1] \in Exposed(advertised))
              => /\ ENABLED (/\ CliLine("A", line, "answers")
                             /\ direct' = Append(direct,
                                                 [name |-> base[1],
                                                  arguments |-> EmptyDict]))
                 /\ ~ENABLED (/\ CliLine("A", line, "answers")
                              /\ \/ messages' # messages
                                 \/ nruns' # nruns
                                 \/ pc' # pc)

----------------------------------------------------------------------------
(* C26 (Spec).  Every model request of run() carries the whole log as it   *)
(* stands when the request is sent, turn for turn and in order, the whole  *)
(* cached descriptor list, and stream = false; sending changes neither     *)
(* the log nor the catalogue.                                              *)
C26_RequestCarriesWholeLog ==
    [][\A r \in SeqRuns :
         (pc[r] = "awaiting" /\ pc'[r] = "inflight")
            => /\ ~ollamaTools.isNone
               /\ DOMAIN payload'[r] = {"model", "messages", "tools", "stream"}
               /\ Len(payload'[r].messages) = Len(messages)
               /\ \A i \in 1..Len(messages) :
                      payload'[r].messages[i] = messages[i]
               /\ payload'[r].tools = ollamaTools.value
               /\ payload'[r].stream = FALSE
               /\ messages' = messages
               /\ ollamaTools' = ollamaTools]_vars

\* The first request of a second run: it carries the system turn, both
\* user turns and the assistant and tool turns of the first run.
C26_Witness ==
    /\ nruns = 2
    /\ pc["A"] = "inflight"
    /\ nrequests["A"] = 1
    /\ Last(payload["A"].messages).role = "user"
    /\ payload["A"].messages[1] = SystemMsg
    /\ payload["A"].messages[2].role = "user"
    /\ \E i \in 3..Len(payload["A"].messages) :
           payload["A"].messages[i].role = "tool"
    /\ payload["A"].tools = ollamaTools.value

----------------------------------------------------------------------------
(* C27 (SpecDispatch).  Within a round the dispatcher calls the providers  *)
(* one at a time, in the order of the entries: the calls made so far are   *)
(* for entries of increasing position, each for the name of its entry,     *)
(* every call but the last is over, and the last is the one awaited, if    *)
(* any; a call for a later entry is made only when every earlier entry     *)
(* has been gone through.                                                  *)
C27_ProviderCallsOneAtATime ==
    \A r \in SeqRuns :
        LET made == invoked[r]
        IN /\ \A j \in 1..Len(made) :
                  /\ made[j].index \in 1..Len(tool_calls[r])
                  /\ made[j].name = tool_calls[r][made[j].index].function.name
                  /\ made[j].index <= idx[r]
                  /\ j < Len(made)
                       => /\ made[j].index < made[j + 1].index
                          /\ made[j].outcome # Pending
           /\ inflight[r].busy
                <=> (made # <<>> /\ Last(made).outcome = Pending)
           /\ inflight[r].busy
                => /\ Last(made).index = idx[r]
                   /\ inflight[r].name = Last(made).name
                   /\ inflight[r].client = Last(made).client

\* The call for the third entry is awaited; the calls for the first two
\* are over, one by a result and one by an exception.
C27_Witness ==
    /\ Len(invoked["A"]) = 3
    /\ invoked["A"][1].outcome.kind = "result"
    /\ invoked["A"][2].outcome.kind = "raise"
    /\ invoked["A"][3].outcome = Pending
    /\ invoked["A"][3].index = 3
    /\ inflight["A"].busy
    /\ Len(tool_messages["A"]) = 2

----------------------------------------------------------------------------
(* C28 (SpecDispatch).  For an entry whose name is a key of the ownership  *)
(* map, the dispatcher calls the provider the map gives for that name,     *)
(* with that name and the entry's arguments, exactly once, and calls no    *)
(* other provider for it: at most one call is ever made for the entry,     *)
(* every call made for it is that one, and once the dispatcher is past     *)
(* the entry or has left, the call has been made.                          *)
(* Violated through C8: an earlier entry named by a JSON array makes the   *)
(* dispatcher raise, and the entries after it are never called.            *)
C28_OwnerCalledExactlyOnce ==
    \A r \in SeqRuns : \A i \in 1..Len(tool_calls[r]) :
        LET call == tool_calls[r][i]
            made == {j \in 1..Len(invoked[r]) : invoked[r][j].index = i}
        IN (/\ Has(call, "function")
            /\ Has(call.function, "name")
            /\ call.function.name \in DOMAIN toolClients.value)
              => /\ Cardinality(made) <= 1
                 /\ \A j \in made :
                        /\ invoked[r][j].client
                             = toolClients.value[call.function.name]
                        /\ invoked[r][j].name = call.function.name
                        /\ invoked[r][j].arguments = call.function.arguments
                 /\ (i < idx[r] \/ pc[r] # "dispatching")
                      => Cardinality(made) = 1

----------------------------------------------------------------------------
(* C29 (SpecCatalogue).  A build over providers whose listings all answer  *)
(* completes without error, also when several of them list the same name;  *)
(* and the ownership map it caches has, for every name some provider       *)
(* lists, the last provider in iteration order that lists it.              *)
C29_LastProviderOwnsName ==
    [][\A r \in SeqRuns :
         LET lists(c, n) == \E i \in 1..Len(advertised[c].tools) :
                                advertised[c].tools[i] = n
             place(c) == CHOOSE k \in 1..Len(ClientOrder) : ClientOrder[k] = c
         IN /\ (/\ pc[r] = "ensure" /\ pc'[r] # "ensure"
                /\ toolClients.isNone
                /\ \A c \in Clients : advertised[c].ok)
                 => /\ pc'[r] = "awaiting"
                    /\ raised'[r] = NoExc
                    /\ ~toolClients'.isNone
            /\ (toolClients.isNone /\ ~toolClients'.isNone)
                 => /\ DOMAIN toolClients'.value = Exposed(advertised)
                    /\ \A n \in Exposed(advertised) :
                           LET owner == toolClients'.value[n]
                           IN /\ owner \in Clients
                              /\ lists(owner, n)
                              /\ \A c \in Clients :
                                     lists(c, n) => place(c) <= place(owner)]_vars

\* Both providers list t1, and p1 lists t2 as well: the build went
\* through, t1 belongs to p2 and t2 to p1.
C29_Witness ==
    /\ pc["A"] = "awaiting"
    /\ nruns = 1
    /\ advertised = [p1 |-> Listing(<<"t1", "t2">>), p2 |-> Listing(<<"t1">>)]
    /\ listed = <<"p1", "p2">>
    /\ ~toolClients.isNone
    /\ toolClients.value = [t1 |-> "p2", t2 |-> "p1"]
    /\ raised["A"] = NoExc

----------------------------------------------------------------------------
(* C30 (SpecResults).  For a provider call that returned a result, the     *)
(* tool message has, when the result holds text blocks, their texts in     *)
(* block order with one newline between neighbours and nothing of the      *)
(* other blocks; and when it holds none, the serialization of the raw      *)
(* result: its isError flag and its content.                               *)
C30_TextBlocksJoined ==
    \A r \in SeqRuns : \A j \in 1..Len(invoked[r]) :
        invoked[r][j].outcome.kind = "result"
            => LET blocks == invoked[r][j].outcome.content
                   texts == {i \in 1..Len(blocks) : blocks[i].type = "text"}
                   rank(i) == Cardinality({k \in texts : k <= i})
                   n == Cardinality(texts)
                   msg == tool_messages[r][j]
               IN /\ Len(tool_messages[r]) >= j
                  /\ msg.role = "tool"
                  /\ msg.tool_name = invoked[r][j].name
                  /\ IF n > 0
                     THEN /\ msg.content.kind = "text"
                          /\ Len(msg.content.text) = 2 * n - 1
                          /\ \A i \in texts :
                                 msg.content.text[2 * rank(i) - 1]
                                   = blocks[i].text
                          /\ \A m \in 1..(n - 1) :
                                 msg.content.text[2 * m] = "\n"
                     ELSE /\ msg.content.kind = "dump"
                          /\ msg.content.isError = invoked[r][j].outcome.isError
                          /\ msg.content.content = blocks

\* A result of a text, an image and a text: the content is the two texts
\* with a newline between them.
C30_Witness ==
    /\ Len(invoked["A"]) = 1
    /\ invoked["A"][1].outcome
         = CallResult(FALSE, <<TextBlock("a"), ImageBlock, TextBlock("b")>>)
    /\ tool_messages["A"][1].content
         = [kind |-> "text", text |-> <<"a", "\n", "b">>]
    /\ Last(messages) = tool_messages["A"][1]

----------------------------------------------------------------------------
(* C31 (SpecArguments).  The arguments handed to a provider's call         *)
(* primitive are always a mapping, whatever arguments value the request    *)
(* held.                                                                   *)
C31_ArgumentsAlwaysMapping ==
    \A r \in SeqRuns :
        /\ \A j \in 1..Len(invoked[r]) : invoked[r][j].arguments.type = "dict"
        /\ inflight[r].busy => inflight[r].arguments.type = "dict"

----------------------------------------------------------------------------
(* C32 (SpecRound1Calls).  An entry of a structured tool_calls list that   *)
(* has no function, or whose function has no name or an empty one, gets    *)
(* no tool turn and no provider call.  When the list is not empty and      *)
(* every entry is of this kind, the round records the assistant turn with  *)
(* the tool_calls field and no tool turn after it, and the run does not    *)
(* return: it goes on to the request of the next round, which carries      *)
(* that log.                                                               *)
C32_UnnamedEntriesSkipped ==
    \A r \in SeqRuns :
        /\ \A i \in 1..Len(tool_calls[r]) :
               ~IsNamed(tool_calls[r][i])
                   => /\ \A k \in 1..Len(emitted[r]) : emitted[r][k] # i
                      /\ \A j \in 1..Len(invoked[r]) :
                             invoked[r][j].index # i
        /\ Len(tool_messages[r]) = Len(emitted[r])
        /\ (/\ tool_calls[r] # <<>>
            /\ \A i \in 1..Len(tool_calls[r]) : ~IsNamed(tool_calls[r][i]))
             => /\ pc[r] \in {"dispatching", "awaiting", "inflight"}
                /\ raised[r] = NoExc
                /\ Len(messages) = 3
                /\ messages[3].role = "assistant"
                /\ Has(messages[3], "tool_calls")
                /\ messages[3].tool_calls = tool_calls[r]
                /\ tool_messages[r] = <<>>
                /\ invoked[r] = <<>>
                /\ pc[r] = "awaiting" => ENABLED SendRequest(r)
                /\ pc[r] = "inflight"
                     => /\ nrequests[r] = 2
                        /\ payload[r].messages = messages

\* The second request of a run whose first reply held three entries, none
\* of them with a name: the log ends with the assistant turn.
C32_Witness ==
    /\ pc["A"] = "inflight"
    /\ nrequests["A"] = 2
    /\ tool_calls["A"] = <<CallNoFunction, CallNoName, CallEmptyName>>
    /\ Last(messages).role = "assistant"
    /\ Last(messages).tool_calls = tool_calls["A"]
    /\ payload["A"].messages = messages

----------------------------------------------------------------------------
(* C33 (Spec).  run() never rolls the log back.  Starting a run appends    *)
(* its user turn to the log as it is, whatever became of the run before;   *)
(* the catalogue step leaves the log alone, so a run that fails there      *)
(* leaves the log ending with its user turn and has sent no request; a     *)
(* transport failure leaves the log alone too, so a run that fails in      *)
(* round k leaves, after its user turn, the assistant turns of rounds      *)
(* 1..k-1, each with tool_calls, and their tool turns; and no step of any  *)
(* kind shortens the log.                                                  *)
C33_NoRollbackOnFailure ==
    [][\A r \in SeqRuns :
         /\ IsPrefix(messages, messages')
         /\ (Idle(r) /\ pc'[r] = "ensure")
              => /\ Len(messages') = Len(messages) + 1
                 /\ Last(messages').role = "user"
         /\ pc[r] = "ensure"
              => /\ messages' = messages
                 /\ pc'[r] = "failed"
                      => /\ raised'[r] = "ListToolsError"
                         /\ Last(messages').role = "user"
                         /\ nrequests'[r] = 0
         /\ (pc[r] = "inflight" /\ pc'[r] = "failed"
               /\ raised'[r] = "TransportError")
              => /\ messages' = messages
                 /\ LET u == CHOOSE i \in 1..Len(messages') :
                                 /\ messages'[i].role = "user"
                                 /\ \A k \in (i + 1)..Len(messages') :
                                        messages'[k].role # "user"
                        after == (u + 1)..Len(messages')
                    IN /\ \A i \in after :
                              messages'[i].role \in {"assistant", "tool"}
                       /\ \A i \in after :
                              messages'[i].role = "assistant"
                                  => Has(messages'[i], "tool_calls")
                       /\ Cardinality({i \in after :
                                          messages'[i].role = "assistant"})
                            = nrequests'[r] - 1]_vars

\* The second run has begun after a run that failed in its second round:
\* its user turn follows the tool turn of the failed run's first round.
C33_Witness ==
    /\ nruns = 2
    /\ pc["A"] = "ensure"
    /\ Len(messages) = 5
    /\ messages[2].role = "user"
    /\ messages[3].role = "assistant"
    /\ messages[4].role = "tool"
    /\ messages[5].role = "user"

----------------------------------------------------------------------------
(* C34 (Spec).  The log lives on from one run() to the next.  A run starts *)
(* on the log the run before left, adding its user turn and nothing else;  *)
(* the log is untouched up to the first request; and the first request of  *)
(* a run carries that whole log: the system turn, every turn of the        *)
(* earlier runs, then the new user turn, so it holds one user turn per     *)
(* run made so far.                                                        *)
C34_LogPersistsAcrossRuns ==
    [][\A r \in SeqRuns :
         /\ (Idle(r) /\ ~Idle(r)')
              => /\ SubSeq(messages', 1, Len(messages)) = messages
                 /\ \E query \in Queries :
                        messages' = Append(messages, UserMsg(query))
         /\ (pc[r] = "awaiting" /\ pc'[r] = "inflight" /\ nrequests[r] = 0)
              => /\ messages' = messages
                 /\ payload'[r].messages = messages
                 /\ Last(payload'[r].messages).role = "user"
                 /\ payload'[r].messages[1] = SystemMsg
                 /\ Cardinality({i \in 1..Len(payload'[r].messages) :
                                    payload'[r].messages[i].role = "user"})
                      = nruns]_vars

\* The first request of the second run, after a first run of a tool round
\* and a final answer: it carries the six turns of the log.
C34_Witness ==
    /\ nruns = 2
    /\ pc["A"] = "inflight"
    /\ nrequests["A"] = 1
    /\ Len(messages) = 6
    /\ messages[4].role = "tool"
    /\ messages[5].role = "assistant"
    /\ messages[6].role = "user"
    /\ payload["A"].messages = messages

----------------------------------------------------------------------------
(* C35 (Spec).  In every state of an agent the log begins with the system  *)
(* turn written at construction, and no later turn of the log is a system  *)
(* turn.                                                                   *)
C35_SystemTurnFirstAndOnly ==
    /\ Len(messages) >= 1
    /\ messages[1] = SystemMsg
    /\ messages[1].role = "system"
    /\ \A i \in 2..Len(messages) : messages[i].role # "system"

\* Two runs over, the first with a tool round: seven turns, one of them
\* the system turn.
C35_Witness ==
    /\ nruns = 2
    /\ pc["A"] = "done"
    /\ Len(messages) = 7
    /\ messages[4].role = "tool"
    /\ messages[6].role = "user"
    /\ messages[7].role = "assistant"

----------------------------------------------------------------------------
(* C36 (SpecCatalogue).  Once a catalogue build has succeeded, the names   *)
(* of the cached descriptors are exactly the keys of the cached ownership  *)
(* map: every advertised tool has an owner, and every owned name is        *)
(* advertised.                                                             *)
C36_DescriptorNamesAreOwnedNames ==
    (~ollamaTools.isNone /\ ~toolClients.isNone)
        => /\ \A i \in 1..Len(ollamaTools.value) :
                  ollamaTools.value[i].function.name
                      \in DOMAIN toolClients.value
           /\ \A name \in DOMAIN toolClients.value :
                  \E i \in 1..Len(ollamaTools.value) :
                      ollamaTools.value[i].function.name = name

\* A build from providers that list t1, t2 and t2 again: three
\* descriptors, two owned names.
C36_Witness ==
    /\ ~ollamaTools.isNone
    /\ Len(ollamaTools.value) = 3
    /\ ollamaTools.value[1].function.name = "t1"
    /\ ollamaTools.value[2].function.name = "t2"
    /\ ollamaTools.value[3].function.name = "t2"
    /\ DOMAIN toolClients.value = {"t1", "t2"}

----------------------------------------------------------------------------
(* C37 (SpecTransport).  The terminator is looked for before the data:     *)
(* prefix is taken off, so a line made of the prefix and the terminator    *)
(* is kept.  When such a line is the last line of a 2xx body that is not   *)
(* blank, _chat_sync hands [DONE] to the JSON decoder and fails there:     *)
(* nothing is returned to the round, whatever JSON the lines before it     *)
(* hold.                                                                   *)
C37_PrefixedTerminatorKept ==
    \A r \in SeqRuns :
        Answered(r)
            => LET body == response[r].body
                   inked == {sp \in LineSpans(body) : Inked(body, sp) # {}}
               IN \A sp \in inked :
                      (/\ \A other \in inked : other[1] <= sp[1]
                       /\ LET line == Trimmed(body, sp)
                          IN /\ Len(line) >= 2
                             /\ line[1] = DataPrefix
                             /\ line[Len(line)] = Done
                             /\ \A k \in 2..(Len(line) - 1) : line[k] = Ws)
                          => /\ raised[r] = "JSONDecodeError"
                             /\ ~returned[r].done
                             /\ pc[r] = "failed"

\* A reply, then the prefixed terminator: the round is left by the decoder
\* error and the reply of the first line is not read.
C37_Witness ==
    /\ Answered("A")
    /\ response["A"].body = <<"{msg:txt}", Nl, DataPrefix, Ws, Done>>
    /\ raised["A"] = "JSONDecodeError"
    /\ ~returned["A"].done
    /\ pc["A"] = "failed"
    /\ Len(messages) = 2

----------------------------------------------------------------------------
(* C38 (SpecOverlap).  run() has no mutual exclusion: a run() call can     *)
(* start whenever its frame is free, whatever the other call on the agent  *)
(* is doing, and a call goes on from each of its awaits (the reply of the  *)
(* model, the return of the dispatcher) whatever the other has done        *)
(* meanwhile.  The dispatcher's tool turns are appended at the end of the  *)
(* log as it then is.                                                      *)
C38_NoMutualExclusion ==
    \A r \in Runs :
        /\ (Idle(r) /\ nruns < MaxRuns) => ENABLED StartRun(r, "q")
        /\ pc[r] = "inflight"
             => ENABLED ReceiveReply(r, Reply("", <<>>, <<CallT1>>))
        /\ (pc[r] = "dispatching" /\ ~inflight[r].busy
              /\ idx[r] > Len(tool_calls[r]))
             => ENABLED (FinishDispatch(r)
                           /\ messages' = messages \o tool_messages[r])

\* Run A has recorded its assistant turn with the request for t1; while A
\* waited for the provider, run B appended its user turn; A's tool turn
\* follows that user turn.
C38_Witness ==
    /\ Len(messages) = 5
    /\ messages[2].role = "user"
    /\ messages[3].role = "assistant"
    /\ Has(messages[3], "tool_calls")
    /\ messages[4].role = "user"
    /\ messages[5].role = "tool"
    /\ messages[5].tool_name = "t1"
    /\ pc["A"] = "awaiting"
    /\ pc["B"] # "idle"

----------------------------------------------------------------------------
(* C39 (SpecCli).  The CLI never overlaps runs of the agent: at most one   *)
(* run() call is under way in any state, and while one is, the loop reads  *)
(* no line, so it starts no run and makes no direct call before the call   *)
(* it awaits is over.                                                      *)
C39_CliRunsNeverOverlap ==
    /\ Cardinality({r \in Runs : ~Idle(r)}) <= 1
    /\ (\E r \in Runs : ~Idle(r))
         => \A o \in Runs, line \in CliLines :
                ~ENABLED CliLine(o, line, "answers")

\* The second run of the loop under way, its request sent, after a first
\* run that has returned.
C39_Witness ==
    /\ nruns = 2
    /\ Cardinality({r \in Runs : pc[r] = "inflight"}) = 1
    /\ Cardinality({r \in Runs : ~Idle(r)}) = 1
    /\ Cardinality({i \in 1..Len(messages) : messages[i].role = "user"}) = 2
    /\ payload[CHOOSE r \in Runs : pc[r] = "inflight"].messages = messages

====
